---- MODULE Spec2Model ----
(***************************************************************************)
(* A model of the Wheely rental backend (Django + Django REST framework):  *)
(* the rows of the relational store, and one action per request handler or *)
(* background task.  Requests are sequential: one action is one request,   *)
(* from its first query to its response.                                   *)
(*                                                                         *)
(* Ratings are floats with two decimals in the code; here they are counted *)
(* in hundredths (4.0 is 400).  Optional columns hold <<>> for NULL/None   *)
(* and <<x>> for a value x.                                                *)
(***************************************************************************)
EXTENDS Integers, Sequences, FiniteSets, TLC

VARIABLES
    users,      \* User rows:                 id -> row
    vehicles,   \* Vehicle rows:              id -> row
    locations,  \* Location rows:             id -> [city, state]
    reviews,    \* Review rows:               set of [vehicle, user, rating]
    photos,     \* VehiclePhoto rows:         id -> [vehicle, is_primary]
    slots,      \* VehicleAvailability rows:  id -> row
    seq,        \* the auto-increment counter of each table
    tasks,      \* the celery queue: vehicle ids awaiting verify_vehicle
    now,        \* timezone.now(), in steps of five minutes
    calls,      \* requests in progress: caller -> what its handler holds
    issued,     \* user -> the time the code stored for it was generated
    rides,      \* Ride rows: records [vehicle, user]
    resp        \* the response to the last request

vars == <<users, vehicles, locations, reviews, photos, slots, seq, tasks, now, calls, issued,
          rides, resp>>

----------------------------------------------------------------------------
(* Bounds of the model *)

NUsers == 3
NVehicles == 2
MaxReviews == 3
MaxPhotos == 3
MaxLocations == 3
MaxSlots == 2
NAccounts == 1

(* Program constants *)

MinRating == 1
MaxRating == 5

UserIds == 1..NUsers
VehicleIds == 1..NVehicles

None == <<>>
Some(x) == <<x>>

NoResponse == [op |-> "none", status |-> 0, user |-> 0]

Restrict(f, S) == [x \in S |-> f[x]]
Extend(f, k, val) == [x \in DOMAIN f \cup {k} |-> IF x = k THEN val ELSE f[x]]

\* requests also name rows that do not exist, and ratings outside 1..5
RatingInputs == {MinRating - 1, MinRating, MaxRating, MaxRating + 1}

----------------------------------------------------------------------------
(* Rows as the models declare them *)

\* models.py User: otp defaults to '', flags to False, is_active to True;
\* updated_at is auto_now, the time of the row's last save()
NewUser == [otp |-> "", email_verified |-> FALSE, phone_verified |-> FALSE,
            phone |-> None, is_active |-> TRUE, first_name |-> "A",
            driving_license_verified |-> FALSE, updated_at |-> 0,
            location |-> None]

\* a save() that leaves the stamp as it was
Saved_KeepStamp(row) == row

\* user.save(): auto_now stamps updated_at
Saved(row) == [row EXCEPT !.updated_at = now]

\* Location rows keep the two columns the search reads; a string is the
\* sequence of its characters
Pune == [city |-> <<"P", "u", "n", "e">>, state |-> <<"M", "H">>]
Goa == [city |-> <<"P", "a", "n", "a", "j", "i">>, state |-> <<"G", "o", "a">>]
Places == <<Pune, Goa>>
PlaceOf(l) == IF l \in DOMAIN Places THEN Places[l] ELSE Goa

\* models.py Vehicle: rating 0.0, total_bookings 0, available, not verified
NewVehicle(owner, loc, vtype, docs) ==
    [owner |-> owner, location |-> loc, vehicle_type |-> vtype, docs |-> docs,
     is_available |-> TRUE, is_verified |-> FALSE,
     rating |-> 0, total_bookings |-> 0]

----------------------------------------------------------------------------
(* Rating aggregation *)

ReviewsOf(v) == {r \in reviews : r.vehicle = v}

RECURSIVE SumRatings(_)
SumRatings(rs) ==
    IF rs = {} THEN 0
    ELSE LET r == CHOOSE x \in rs : TRUE IN r.rating + SumRatings(rs \ {r})

\* Review.objects.filter(vehicle=v).aggregate(Avg('rating'))['rating__avg']:
\* None over no rows, else the mean, kept here as the pair <<sum, count>>
AvgRating(rs) == IF rs = {} THEN None ELSE Some(<<SumRatings(rs), Cardinality(rs)>>)

\* round(sum / n, 2) in hundredths.  A mean of integers lies halfway between
\* two hundredths only when n is a multiple of 8, beyond the bounds here, so
\* round-half-even and round-half-up agree.
Round2(sum, n) == (200 * sum + n) \div (2 * n)

\* `round(avg_rating, 2) if avg_rating else 0.0`
RoundedRating(avg) == IF avg = None THEN 0 ELSE Round2(avg[1][1], avg[1][2])

\* the three lines of ReviewViewSet.create that rewrite the vehicle row
RecomputeRating(vs, rs, v) ==
    LET mine == {r \in rs : r.vehicle = v}
    IN [vs EXCEPT ![v].rating = RoundedRating(AvgRating(mine)),
                  ![v].total_bookings = Cardinality(mine)]

----------------------------------------------------------------------------
(* ReviewSerializer and the response of the generic create *)

ReviewSerializerFields ==
    {"id", "vehicle", "vehicle_id", "host", "host_id", "customer", "customer_id",
     "rating", "comment", "is_verified_booking", "created_at", "updated_at"}

\* declared with write_only=True
ReviewSerializerWriteOnly == {"vehicle_id", "host_id", "customer_id"}

\* serializer.data, the body of the 201 response: a write-only field is
\* accepted on input and left out of the representation
ReviewResponseKeys == ReviewSerializerFields \ ReviewSerializerWriteOnly

\* What ReviewViewSet.create does once super().create() has answered 201:
\* it reads review_data['vehicle_id'] from the response body.  The key is
\* not there, the lookup raises KeyError before the vehicle row is touched,
\* and the request ends in a 500 with the review row already committed.
AfterReviewCreated(vs, rs, v) ==
    IF "vehicle_id" \in ReviewResponseKeys
    THEN [vehicles |-> RecomputeRating(vs, rs, v), status |-> 201]
    ELSE [vehicles |-> vs, status |-> 500]

Row(v, u, r) == [vehicle |-> v, user |-> u, rating |-> r]

\* a store without the unique_together constraint
HasReview_Never(v, u) == FALSE

\* unique_together = ['vehicle', 'user']: the pair is already stored
HasReview(v, u) == \E x \in reviews : x.vehicle = v /\ x.user = u

\* POST /reviews/ : ReviewViewSet.create.  The serializer rejects a rating
\* outside 1..5 (400); the store rejects a dangling vehicle or user and a
\* second review of the same (vehicle, user) pair (IntegrityError, 500).
ReviewCreate(v, u, r) ==
    /\ Cardinality(reviews) < MaxReviews
    /\ IF r \notin MinRating..MaxRating
       THEN /\ resp' = [op |-> "review_create", status |-> 400]
            /\ UNCHANGED <<reviews, vehicles>>
       ELSE IF v \notin DOMAIN vehicles \/ u \notin DOMAIN users \/ HasReview(v, u)
       THEN /\ resp' = [op |-> "review_create", status |-> 500]
            /\ UNCHANGED <<reviews, vehicles>>
       ELSE LET rs == reviews \cup {Row(v, u, r)}
                out == AfterReviewCreated(vehicles, rs, v)
            IN /\ reviews' = rs
               /\ vehicles' = out.vehicles
               /\ resp' = [op |-> "review_create", status |-> out.status]
    /\ UNCHANGED <<users, locations, photos, slots, seq, tasks, now, calls, issued, rides>>

\* PUT/PATCH /reviews/<pk>/ : the generic update of the model viewset; it
\* saves the review row and nothing else
ReviewUpdate(v, u, r) ==
    /\ IF ~HasReview(v, u)
       THEN resp' = [op |-> "review_update", status |-> 404] /\ UNCHANGED reviews
       ELSE IF r \notin MinRating..MaxRating
       THEN resp' = [op |-> "review_update", status |-> 400] /\ UNCHANGED reviews
       ELSE /\ reviews' = {x \in reviews : ~(x.vehicle = v /\ x.user = u)}
                               \cup {Row(v, u, r)}
            /\ resp' = [op |-> "review_update", status |-> 200]
    /\ UNCHANGED <<users, vehicles, locations, photos, slots, seq, tasks, now, calls, issued, rides>>

\* DELETE /reviews/<pk>/ : the generic destroy
ReviewDestroy(v, u) ==
    /\ IF ~HasReview(v, u)
       THEN resp' = [op |-> "review_destroy", status |-> 404] /\ UNCHANGED reviews
       ELSE /\ reviews' = {x \in reviews : ~(x.vehicle = v /\ x.user = u)}
            /\ resp' = [op |-> "review_destroy", status |-> 204]
    /\ UNCHANGED <<users, vehicles, locations, photos, slots, seq, tasks, now, calls, issued, rides>>

\* DELETE /users/<pk>/ : the generic destroy of UserViewSet.  on_delete=CASCADE
\* takes the user's reviews and rides, the vehicles the user owns and, with
\* them, their photos, slots and reviews.
UserDestroy(u) ==
    /\ IF u \notin DOMAIN users
       THEN /\ resp' = [op |-> "user_destroy", status |-> 404]
            /\ UNCHANGED <<users, vehicles, reviews, photos, slots, rides>>
       ELSE LET gone == {v \in DOMAIN vehicles : vehicles[v].owner = u}
                kept == DOMAIN vehicles \ gone
            IN /\ users' = Restrict(users, DOMAIN users \ {u})
               /\ vehicles' = Restrict(vehicles, kept)
               /\ reviews' = {x \in reviews : x.user # u /\ x.vehicle \in kept}
               /\ photos' = Restrict(photos, {p \in DOMAIN photos : photos[p].vehicle \in kept})
               /\ slots' = Restrict(slots, {s \in DOMAIN slots : slots[s].vehicle \in kept})
               /\ rides' = {x \in rides : x.user # u /\ x.vehicle \in kept}
               /\ resp' = [op |-> "user_destroy", status |-> 204]
    /\ UNCHANGED <<locations, seq, tasks, now, calls, issued>>

RECURSIVE SweepRatings(_, _, _)
\* the loop of update_vehicle_ratings: a vehicle is rewritten only when
\* reviews.exists()
SweepRatings(vs, rs, todo) ==
    IF todo = {} THEN vs
    ELSE LET v == CHOOSE x \in todo : TRUE
             next == IF \E r \in rs : r.vehicle = v
                     THEN RecomputeRating(vs, rs, v) ELSE vs
         IN SweepRatings(next, rs, todo \ {v})

\* the celery task update_vehicle_ratings
UpdateVehicleRatings ==
    /\ vehicles' = SweepRatings(vehicles, reviews, DOMAIN vehicles)
    /\ resp' = [op |-> "update_vehicle_ratings", status |-> 0]
    /\ UNCHANGED <<users, locations, reviews, photos, slots, seq, tasks, now, calls, issued, rides>>

----------------------------------------------------------------------------
(* Specifications of the review store *)

\* a catalog in use: NUsers registered users, and NVehicles uploaded vehicles
\* owned by user 1, each at its own location
InitCatalog ==
    /\ users = [u \in UserIds |-> NewUser]
    /\ vehicles = [v \in VehicleIds |-> NewVehicle(1, v, "4_wheeler", TRUE)]
    /\ locations = [l \in VehicleIds |-> PlaceOf(l)]
    /\ reviews = {}
    /\ photos = <<>>
    /\ slots = <<>>
    /\ seq = [location |-> NVehicles, vehicle |-> NVehicles, photo |-> 0, slot |-> 0]
    /\ tasks = {}
    /\ now = 0
    /\ calls = <<>>
    /\ issued = <<>>
    /\ rides = {}
    /\ resp = NoResponse

\* only review creations
NextReviewCreate ==
    \E v \in VehicleIds, u \in UserIds, r \in RatingInputs : ReviewCreate(v, u, r)

SpecReviewCreate == InitCatalog /\ [][NextReviewCreate]_vars

\* every operation that writes reviews or ratings
NextReview ==
    \/ \E v \in VehicleIds, u \in UserIds, r \in RatingInputs : ReviewCreate(v, u, r)
    \/ \E v \in VehicleIds, u \in UserIds, r \in RatingInputs : ReviewUpdate(v, u, r)
    \/ \E v \in VehicleIds, u \in UserIds : ReviewDestroy(v, u)
    \/ \E u \in UserIds : UserDestroy(u)
    \/ UpdateVehicleRatings

SpecReview == InitCatalog /\ [][NextReview]_vars

----------------------------------------------------------------------------
(* Claims about ratings *)

MeanRating(v) == RoundedRating(AvgRating(ReviewsOf(v)))

\* C1: after any sequence of review creations through ReviewViewSet.create,
\* every vehicle's rating is the mean of its reviews' ratings rounded to two
\* decimals, and 0.0 while it has none.  (Checked under SpecReviewCreate.)
C1_RatingIsMeanAfterCreations ==
    resp.op \in {"none", "review_create"}
        => \A v \in DOMAIN vehicles : vehicles[v].rating = MeanRating(v)

\* C2: in every reachable state - after a review was created, updated or
\* deleted, or removed with its deleted author - a vehicle's rating is the
\* mean of the reviews it has now.  (Checked under SpecReview.)
C2_RatingTracksReviews ==
    \A v \in DOMAIN vehicles :
        /\ vehicles[v].rating = MeanRating(v)
        /\ ReviewsOf(v) = {} => vehicles[v].rating = 0

----------------------------------------------------------------------------
(* Vehicle photos *)

PhotosOf(ps, v) == {p \in DOMAIN ps : ps[p].vehicle = v}
PrimaryPhotos(ps, v) == {p \in PhotosOf(ps, v) : ps[p].is_primary}

\* VehiclePhoto.objects.filter(vehicle=photo.vehicle).update(is_primary=False)
ClearPrimary(ps, v) ==
    [p \in DOMAIN ps |-> IF ps[p].vehicle = v
                         THEN [ps[p] EXCEPT !.is_primary = FALSE] ELSE ps[p]]

\* set_primary without the bulk update that clears the other flags
SetPrimaryWrites_NoClear(ps, pk) == [ps EXCEPT ![pk].is_primary = TRUE]

\* POST /vehicle-photos/<pk>/set_primary/ : VehiclePhotoViewSet.set_primary
SetPrimaryWrites(ps, pk) ==
    [ClearPrimary(ps, ps[pk].vehicle) EXCEPT ![pk].is_primary = TRUE]

SetPrimary(pk) ==
    /\ IF pk \notin DOMAIN photos
       THEN resp' = [op |-> "set_primary", status |-> 404] /\ UNCHANGED photos
       ELSE /\ photos' = SetPrimaryWrites(photos, pk)
            /\ resp' = [op |-> "set_primary", status |-> 200]
    /\ UNCHANGED <<users, vehicles, locations, reviews, slots, seq, tasks, now, calls, issued, rides>>

RECURSIVE CreatePhotos(_, _, _, _, _)
\* the loop of VehiclePhotoUploadView.post over enumerate(photos): photo i is
\* primary when i == 0 and the vehicle has no primary photo yet
CreatePhotos(ps, last, v, i, n) ==
    IF i = n THEN ps
    ELSE CreatePhotos(
            Extend(ps, last + 1,
                   [vehicle |-> v,
                    is_primary |-> (i = 0 /\ PrimaryPhotos(ps, v) = {})]),
            last + 1, v, i + 1, n)

\* POST /upload/vehicle-photos/ : VehiclePhotoUploadView.post with vehicle_id
\* (None when the field is absent) and n files
VehiclePhotoUpload(vehicle_id, n) ==
    /\ seq.photo + n <= MaxPhotos
    /\ IF vehicle_id = None \/ n = 0
       THEN resp' = [op |-> "photo_upload", status |-> 400] /\ UNCHANGED <<photos, seq>>
       ELSE IF vehicle_id[1] \notin DOMAIN vehicles
       THEN resp' = [op |-> "photo_upload", status |-> 404] /\ UNCHANGED <<photos, seq>>
       ELSE /\ photos' = CreatePhotos(photos, seq.photo, vehicle_id[1], 0, n)
            /\ seq' = [seq EXCEPT !.photo = @ + n]
            /\ resp' = [op |-> "photo_upload", status |-> 201]
    /\ UNCHANGED <<users, vehicles, locations, reviews, slots, tasks, now, calls, issued, rides>>

\* the fields VehiclePhotoSerializer reads and writes: no `vehicle` among them
VehiclePhotoSerializerFields == {"id", "photo", "is_primary", "created_at"}

\* POST /vehicle-photos/ : the generic create.  The serializer has no vehicle
\* field, the INSERT carries vehicle_id NULL against a NOT NULL foreign key,
\* and the request ends in an IntegrityError with no row written.
PhotoCreate(is_primary) ==
    /\ IF "vehicle" \in VehiclePhotoSerializerFields
       THEN /\ \E v \in DOMAIN vehicles :
                  photos' = Extend(photos, seq.photo + 1,
                                   [vehicle |-> v, is_primary |-> is_primary])
            /\ seq.photo < MaxPhotos
            /\ seq' = [seq EXCEPT !.photo = @ + 1]
            /\ resp' = [op |-> "photo_create", status |-> 201]
       ELSE /\ resp' = [op |-> "photo_create", status |-> 500]
            /\ UNCHANGED <<photos, seq>>
    /\ UNCHANGED <<users, vehicles, locations, reviews, slots, tasks, now, calls, issued, rides>>

\* PUT/PATCH /vehicle-photos/<pk>/ : the generic update; is_primary is a
\* writable field of the serializer and is saved as sent
PhotoUpdate(pk, is_primary) ==
    /\ IF pk \notin DOMAIN photos
       THEN resp' = [op |-> "photo_update", status |-> 404] /\ UNCHANGED photos
       ELSE /\ photos' = [photos EXCEPT ![pk].is_primary = is_primary]
            /\ resp' = [op |-> "photo_update", status |-> 200]
    /\ UNCHANGED <<users, vehicles, locations, reviews, slots, seq, tasks, now, calls, issued, rides>>

\* DELETE /vehicle-photos/<pk>/ : the generic destroy
PhotoDestroy(pk) ==
    /\ IF pk \notin DOMAIN photos
       THEN resp' = [op |-> "photo_destroy", status |-> 404] /\ UNCHANGED photos
       ELSE /\ photos' = Restrict(photos, DOMAIN photos \ {pk})
            /\ resp' = [op |-> "photo_destroy", status |-> 204]
    /\ UNCHANGED <<users, vehicles, locations, reviews, slots, seq, tasks, now, calls, issued, rides>>

----------------------------------------------------------------------------
(* VehicleUploadView: location + vehicle + photos + slots in one request *)

RequiredDocs == {"vehicle_rc", "vehicle_insurance", "vehicle_pollution_certificate"}

\* a check that is content with any one document
MissingDocs_AnyOne(req) ==
    IF req.vehicle_type # "Bicycle" /\ req.docs = {} THEN RequiredDocs ELSE {}

\* the documents a request lacks; none are asked of a 'Bicycle'
MissingDocs(req) ==
    IF req.vehicle_type # "Bicycle" THEN RequiredDocs \ req.docs ELSE {}

\* the tables the upload writes, and the celery queue
StoreNow ==
    [locations |-> locations, vehicles |-> vehicles, photos |-> photos,
     slots |-> slots, seq |-> seq, tasks |-> tasks]

SlotRow(v, d) ==
    [vehicle |-> v, start_date |-> d.start_date, end_date |-> d.end_date,
     start_time |-> d.start_time, end_time |-> d.end_time,
     is_available |-> d.is_available]

RECURSIVE UploadPhotos(_, _, _, _, _)
\* VehiclePhoto.objects.create(vehicle=vehicle, photo=photo_file, is_primary=i == 0)
UploadPhotos(ps, last, v, i, n) ==
    IF i = n THEN ps
    ELSE UploadPhotos(Extend(ps, last + 1, [vehicle |-> v, is_primary |-> (i = 0)]),
                      last + 1, v, i + 1, n)

RECURSIVE SaveSlots(_, _, _)
\* the loop over the slots of the payload: each valid one is saved, the
\* first invalid one ends the request with the earlier ones already saved
SaveSlots(st, v, items) ==
    IF items = <<>> THEN [st |-> st, ok |-> TRUE]
    ELSE IF ~Head(items).valid THEN [st |-> st, ok |-> FALSE]
    ELSE SaveSlots([st EXCEPT !.seq.slot = @ + 1,
                              !.slots = Extend(@, st.seq.slot + 1,
                                               SlotRow(v, Head(items).row))],
                   v, Tail(items))

Exit(status, how, st) == [status |-> status, exit |-> how, st |-> st]

\* the body of `with transaction.atomic():`.  It is left either by a
\* `return Response(...)` or by an exception.
UploadBody(req, st) ==
    IF req.location \in {"bad_json", "invalid"} THEN Exit(400, "return", st)
    ELSE
    LET loc == st.seq.location + 1
        s1 == [st EXCEPT !.seq.location = loc, !.locations = Extend(@, loc, Pune)]
    IN  IF req.vehicle = "invalid" THEN Exit(400, "return", s1)
        ELSE IF req.vehicle = "raise" THEN Exit(500, "raise", s1)
        ELSE
        LET vid == s1.seq.vehicle + 1
            row == NewVehicle(req.owner_id[1], loc, req.vehicle_type,
                              RequiredDocs \subseteq req.docs)
            s2 == [s1 EXCEPT !.seq.vehicle = vid, !.vehicles = Extend(@, vid, row)]
            s3 == [s2 EXCEPT !.photos = UploadPhotos(@, s2.seq.photo, vid, 0, req.photos),
                             !.seq.photo = @ + req.photos]
        IN  IF req.slots.kind \in {"bad_json", "bad_format"}
            THEN Exit(400, "return", s3)
            ELSE
            LET sv == SaveSlots(s3, vid, req.slots.items)
            IN  IF ~sv.ok THEN Exit(400, "return", sv.st)
                ELSE Exit(201, "return", [sv.st EXCEPT !.tasks = @ \cup {vid}])

\* transaction.atomic().__exit__: an exception rolls the rows back, any other
\* way out of the block - a `return` included - commits them.  Sequences and
\* the celery queue are outside the transaction.
AtomicExit(before, out) ==
    IF out.exit = "raise"
    THEN [before EXCEPT !.seq = out.st.seq, !.tasks = out.st.tasks]
    ELSE out.st

\* the `error` of the 400 sent before the transaction: the first check that
\* fails names what is required
Required(req) ==
    IF req.owner_id = None THEN {"owner_id"}
    ELSE IF ~req.has_location THEN {"location"}
    ELSE MissingDocs(req)

\* POST of VehicleUploadView
VehicleUpload(req) ==
    /\ seq.location < MaxLocations
    /\ seq.photo + req.photos <= MaxPhotos
    /\ seq.slot + Len(req.slots.items) <= MaxSlots
    /\ IF req.owner_id = None \/ ~req.has_location \/ MissingDocs(req) # {}
       THEN /\ resp' = [op |-> "vehicle_upload", status |-> 400,
                        began |-> FALSE, mark |-> seq,
                        error |-> Required(req)]
            /\ UNCHANGED <<locations, vehicles, photos, slots, seq, tasks, now, calls, issued, rides>>
       ELSE LET out == UploadBody(req, StoreNow)
                fin == AtomicExit(StoreNow, out)
            IN /\ locations' = fin.locations
               /\ vehicles' = fin.vehicles
               /\ photos' = fin.photos
               /\ slots' = fin.slots
               /\ seq' = fin.seq
               /\ tasks' = fin.tasks
               /\ UNCHANGED <<now, calls, issued, rides>>
               /\ resp' = [op |-> "vehicle_upload", status |-> out.status,
                           began |-> TRUE, mark |-> seq]
    /\ UNCHANGED <<users, reviews>>

\* the celery task verify_vehicle(vehicle_id)
VerifyVehicleTask(v) ==
    /\ v \in tasks
    /\ tasks' = tasks \ {v}
    /\ IF v \in DOMAIN vehicles /\ ~vehicles[v].docs
       THEN vehicles' = [vehicles EXCEPT ![v].is_verified = FALSE]
       ELSE UNCHANGED vehicles
    /\ resp' = [op |-> "verify_vehicle_task", status |-> 0]
    /\ UNCHANGED <<users, locations, reviews, photos, slots, seq, now, calls, issued, rides>>

\* the payloads explored
SampleSlot ==
    [start_date |-> 1, end_date |-> 2, start_time |-> Some(1),
     end_time |-> Some(2), is_available |-> TRUE]
GoodSlot == [valid |-> TRUE, row |-> SampleSlot]
BadSlot == [valid |-> FALSE, row |-> SampleSlot]

SlotPayloads ==
    {[kind |-> k, items |-> <<>>] : k \in {"absent", "bad_json", "bad_format"}}
    \cup {[kind |-> "list", items |-> i] :
            i \in {<<>>, <<GoodSlot>>, <<BadSlot>>, <<GoodSlot, BadSlot>>,
                   <<GoodSlot, GoodSlot>>}}

\* a field the handler never reaches is left at its first value
AbsentSlots == [kind |-> "absent", items |-> <<>>]
Rejected(r) == r.owner_id = None \/ ~r.has_location \/ MissingDocs(r) # {}
StopsAtLocation(r) == Rejected(r) \/ r.location # "valid"
StopsAtVehicle(r) == StopsAtLocation(r) \/ r.vehicle # "valid"

UploadRequests ==
    {r \in [owner_id : {None, Some(1)},
            has_location : BOOLEAN,
            vehicle_type : {"", "Bicycle", "4_wheeler"},
            docs : {{}, {"vehicle_rc", "vehicle_insurance"}, RequiredDocs},
            location : {"valid", "invalid", "bad_json"},
            vehicle : {"valid", "invalid", "raise"},
            photos : {0, 2},
            slots : SlotPayloads] :
        /\ r.vehicle_type = "" => r.vehicle # "valid" \/ StopsAtLocation(r)
        /\ Rejected(r) => r.location = "valid"
        /\ StopsAtLocation(r) => r.vehicle = "valid"
        /\ StopsAtVehicle(r) => r.photos = 0 /\ r.slots = AbsentSlots}

\* registered users and an empty catalog
InitEmpty ==
    /\ users = [u \in UserIds |-> NewUser]
    /\ vehicles = <<>>
    /\ locations = <<>>
    /\ reviews = {}
    /\ photos = <<>>
    /\ slots = <<>>
    /\ seq = [location |-> 0, vehicle |-> 0, photo |-> 0, slot |-> 0]
    /\ tasks = {}
    /\ now = 0
    /\ calls = <<>>
    /\ issued = <<>>
    /\ rides = {}
    /\ resp = NoResponse

NextUpload ==
    \/ \E req \in UploadRequests : VehicleUpload(req)
    \/ \E v \in 1..MaxLocations : VerifyVehicleTask(v)

SpecUpload == InitEmpty /\ [][NextUpload]_vars

----------------------------------------------------------------------------
(* Specifications of the photo store *)

\* set_primary and the two upload views
NextSetPrimary ==
    \/ \E pk \in 1..MaxPhotos : SetPrimary(pk)
    \/ \E v \in VehicleIds \cup {NVehicles + 1}, n \in 0..2 :
          VehiclePhotoUpload(Some(v), n)
    \/ \E n \in 0..2 : VehiclePhotoUpload(None, n)
    \/ \E req \in UploadRequests : VehicleUpload(req)

SpecSetPrimary == InitCatalog /\ [][NextSetPrimary]_vars

\* every operation that writes photos
NextPhoto ==
    \/ NextSetPrimary
    \/ \E b \in BOOLEAN : PhotoCreate(b)
    \/ \E pk \in 1..MaxPhotos, b \in BOOLEAN : PhotoUpdate(pk, b)
    \/ \E pk \in 1..MaxPhotos : PhotoDestroy(pk)

SpecPhoto == InitCatalog /\ [][NextPhoto]_vars

----------------------------------------------------------------------------
(* OTP issuance and verification *)

AccountIds == 1..NAccounts

\* a request field as the JSON parser hands it over: absent (None), a string
\* or a number
Absent == [none |-> TRUE]
JStr(x) == [str |-> x]
JInt(n) == [int |-> n]
IsStr(x) == DOMAIN x = {"str"}
IsInt(x) == DOMAIN x = {"int"}

Digit(d) ==
    CASE d = 0 -> "0" [] d = 1 -> "1" [] d = 2 -> "2" [] d = 3 -> "3"
      [] d = 4 -> "4" [] d = 5 -> "5" [] d = 6 -> "6" [] d = 7 -> "7"
      [] d = 8 -> "8" [] d = 9 -> "9"

RECURSIVE Decimal(_)
Decimal(n) == IF n < 10 THEN Digit(n) ELSE Decimal(n \div 10) \o Digit(n % 10)

\* str(x)
PyStr(x) ==
    IF IsStr(x) THEN x.str ELSE IF IsInt(x) THEN Decimal(x.int) ELSE "None"

\* bool(x)
Truthy(x) ==
    IF IsStr(x) THEN x.str # "" ELSE IF IsInt(x) THEN x.int # 0 ELSE FALSE

\* `not all([a, b])`
AnyMissing(a, b) == ~(Truthy(a) /\ Truthy(b))

\* a guard that asks for the account key only
VerifyIncomplete_KeyOnly(key, otp) == ~Truthy(key)

\* the guard of both verification views: `if not all([email, otp])`,
\* `if not all([user_id, otp])`
VerifyIncomplete(key, otp) == AnyMissing(key, otp)

\* a comparison that accepts whatever is submitted
OtpMatches_Any(stored, otp) == TRUE

\* `str(user.otp) == str(otp)`
OtpMatches(stored, otp) == PyStr(JStr(stored)) = PyStr(otp)

\* the codes ''.join(random.choices(string.digits, k=6)) draws, two of them
Codes == {"111111", "012345"}

\* what a client submits as otp: nothing, the empty string, a code, a code
\* sent as a JSON number (which drops a leading zero), zero
OtpInputs ==
    {Absent, JStr(""), JStr("111111"), JStr("012345"), JStr("12345"),
     JInt(111111), JInt(12345), JInt(0)}

\* a lookup that falls back to the first row
Lookup_OrFirst(key) ==
    IF IsInt(key) /\ key.int \in DOMAIN users THEN Some(key.int) ELSE Some(1)

\* User.objects.get(email=...) / get(id=...): the accounts are looked up by
\* id, and the email of account u is written u as well
Lookup(key) == IF IsInt(key) /\ key.int \in DOMAIN users THEN Some(key.int) ELSE None

\* the id column's get_prep_value: int(value).  A number is itself, a
\* string of digits is its number, any other string raises ValueError (None)
ParseId(x) ==
    IF IsInt(x) THEN Some(x.int)
    ELSE IF IsStr(x) /\ \E n \in 0..9 : Decimal(n) = x.str
    THEN Some(CHOOSE n \in 0..9 : Decimal(n) = x.str)
    ELSE None

\* get(id=...) of a value int() accepts
ById(x) == Lookup(JInt(ParseId(x)[1]))

\* a match that sets the flag and leaves the code in place
EmailVerifiedRow_KeepOtp(row) == Saved([row EXCEPT !.email_verified = TRUE])

\* the row VerifyEmailView saves on a match
EmailVerifiedRow(row) == Saved([row EXCEPT !.email_verified = TRUE, !.otp = ""])

\* the row VerifyPhoneView saves on a match
PhoneVerifiedRow(row) == Saved([row EXCEPT !.phone_verified = TRUE, !.otp = ""])

\* UserSerializer(user).data, the `user` entry of VerifyEmailView's 200 body.
\* views.py imports UserSerializer; serializers.py does not define it, so
\* the rendering is written as a plain copy of the row's columns that
\* always succeeds.
UserSerializerData(row) ==
    [email_verified |-> row.email_verified, phone_verified |-> row.phone_verified,
     phone |-> row.phone, is_active |-> row.is_active]

OtpUnchanged ==
    UNCHANGED <<vehicles, locations, reviews, photos, slots, seq, tasks, now, calls, rides>>

\* POST /verifyEmail/ : VerifyEmailView.post
VerifyEmail(email, otp) ==
    /\ IF VerifyIncomplete(email, otp)
       THEN /\ resp' = [op |-> "verify_email", status |-> 400, user |-> 0]
            /\ UNCHANGED users
       ELSE IF Lookup(email) = None
       THEN /\ resp' = [op |-> "verify_email", status |-> 404, user |-> 0]
            /\ UNCHANGED users
       ELSE LET u == Lookup(email)[1]
            IN IF OtpMatches(users[u].otp, otp)
               THEN /\ users' = [users EXCEPT ![u] = EmailVerifiedRow(@)]
                    /\ resp' = [op |-> "verify_email", status |-> 200, user |-> u,
                                body |-> UserSerializerData(EmailVerifiedRow(users[u]))]
               ELSE /\ resp' = [op |-> "verify_email", status |-> 400, user |-> u]
                    /\ UNCHANGED users
    /\ UNCHANGED issued
    /\ OtpUnchanged

\* POST /verifyPhone/ : VerifyPhoneView.post
VerifyPhone(user_id, otp) ==
    /\ IF VerifyIncomplete(user_id, otp)
       THEN /\ resp' = [op |-> "verify_phone", status |-> 400, user |-> 0]
            /\ UNCHANGED users
       ELSE IF ParseId(user_id) = None
       THEN /\ resp' = [op |-> "verify_phone", status |-> 500, user |-> 0]
            /\ UNCHANGED users
       ELSE IF ById(user_id) = None
       THEN /\ resp' = [op |-> "verify_phone", status |-> 404, user |-> 0]
            /\ UNCHANGED users
       ELSE LET u == ById(user_id)[1]
            IN IF OtpMatches(users[u].otp, otp)
               THEN /\ users' = [users EXCEPT ![u] = PhoneVerifiedRow(@)]
                    /\ resp' = [op |-> "verify_phone", status |-> 200, user |-> u]
               ELSE /\ resp' = [op |-> "verify_phone", status |-> 400, user |-> u]
                    /\ UNCHANGED users
    /\ UNCHANGED issued
    /\ OtpUnchanged

\* POST /resendOtp/ : ResendOTPView.post.  `upstream_ok` is whether the call
\* out (Supabase's resend, or celery's delay) returns; when it raises, the
\* bare except stores a fresh code `retry`.
ResendOTP(user_id, code, retry, upstream_ok) ==
    /\ IF ~Truthy(user_id)
       THEN /\ resp' = [op |-> "resend_otp", status |-> 400, user |-> 0]
            /\ UNCHANGED <<users, issued>>
       ELSE IF ParseId(user_id) = None
       THEN /\ resp' = [op |-> "resend_otp", status |-> 500, user |-> 0]
            /\ UNCHANGED <<users, issued>>
       ELSE IF ById(user_id) = None
       THEN /\ resp' = [op |-> "resend_otp", status |-> 404, user |-> 0]
            /\ UNCHANGED <<users, issued>>
       ELSE LET u == ById(user_id)[1]
                tried == IF users[u].email_verified
                         THEN [users EXCEPT ![u] = Saved([@ EXCEPT !.otp = code])]
                         ELSE users
            IN /\ users' = IF upstream_ok THEN tried
                           ELSE [tried EXCEPT ![u] = Saved([@ EXCEPT !.otp = retry])]
               /\ issued' = IF users[u].email_verified \/ ~upstream_ok
                             THEN [issued EXCEPT ![u] = now]
                             ELSE issued
               /\ resp' = [op |-> "resend_otp", status |-> 200, user |-> u]
    /\ OtpUnchanged

\* POST of UserAddPhoneView.  When celery's delay raises, the row is
\* already saved and the exception is not caught: a 500.
UserAddPhone(user_id, phone, code, upstream_ok) ==
    /\ IF AnyMissing(user_id, phone)
       THEN /\ resp' = [op |-> "add_phone", status |-> 400, user |-> 0]
            /\ UNCHANGED <<users, issued>>
       ELSE IF ParseId(user_id) = None
       THEN /\ resp' = [op |-> "add_phone", status |-> 500, user |-> 0]
            /\ UNCHANGED <<users, issued>>
       ELSE IF \E o \in DOMAIN users :
                  users[o].phone = Some(phone.str) /\ Some(o) # ParseId(user_id)
       THEN /\ resp' = [op |-> "add_phone", status |-> 400, user |-> 0]
            /\ UNCHANGED <<users, issued>>
       ELSE IF ById(user_id) = None
       THEN /\ resp' = [op |-> "add_phone", status |-> 404, user |-> 0]
            /\ UNCHANGED <<users, issued>>
       ELSE LET u == ById(user_id)[1]
            IN /\ users' = [users EXCEPT ![u] =
                              Saved([@ EXCEPT !.phone = Some(phone.str),
                                              !.otp = code,
                                              !.phone_verified = FALSE])]
               /\ issued' = [issued EXCEPT ![u] = now]
               /\ resp' = [op |-> "add_phone",
                           status |-> IF upstream_ok THEN 200 ELSE 500,
                           user |-> u]
    /\ OtpUnchanged

\* accounts as UserRegisterView leaves them: a fresh code stored, nothing
\* verified yet
InitAccounts ==
    /\ users \in [AccountIds -> {[NewUser EXCEPT !.otp = c] : c \in Codes}]
    /\ vehicles = <<>>
    /\ locations = <<>>
    /\ reviews = {}
    /\ photos = <<>>
    /\ slots = <<>>
    /\ seq = [location |-> 0, vehicle |-> 0, photo |-> 0, slot |-> 0]
    /\ tasks = {}
    /\ now = 0
    /\ calls = <<>>
    /\ issued = [u \in AccountIds |-> 0]
    /\ rides = {}
    /\ resp = NoResponse

\* ids and emails named by requests: each account, one that does not exist,
\* and none at all
AccountKeys == {JInt(u) : u \in 1..(NAccounts + 1)} \cup {Absent}

NextOtp ==
    \/ \E k \in AccountKeys, x \in OtpInputs : VerifyEmail(k, x)
    \/ \E k \in AccountKeys, x \in OtpInputs : VerifyPhone(k, x)
    \/ \E k \in AccountKeys, c \in Codes, r \in Codes, ok \in BOOLEAN :
          ResendOTP(k, c, r, ok)
    \/ \E k \in AccountKeys, ph \in {Absent, JStr("9000000001")}, c \in Codes,
          ok \in BOOLEAN : UserAddPhone(k, ph, c, ok)

SpecOtp == InitAccounts /\ [][NextOtp]_vars

----------------------------------------------------------------------------
(* Primary photos *)

\* C3: under SpecSetPrimary -- photos created by the two upload views and
\* primaries moved only by sequential set_primary calls -- every vehicle has
\* at most one photo with is_primary = TRUE.
C3_OnePrimaryAfterSetPrimary ==
    \A v \in DOMAIN vehicles : Cardinality(PrimaryPhotos(photos, v)) <= 1

\* set_primary has just moved the flag onto a later photo of a vehicle whose
\* first photo carried it
C3_Witness ==
    /\ resp.op = "set_primary"
    /\ resp.status = 200
    /\ \E p \in DOMAIN photos, q \in DOMAIN photos :
          /\ p < q
          /\ photos[p].vehicle = photos[q].vehicle
          /\ ~photos[p].is_primary
          /\ photos[q].is_primary

\* C4: the same bound under SpecPhoto, where the generic create, update and
\* partial update of VehiclePhotoViewSet write photos too: no two distinct
\* photos of one vehicle are both primary.
C4_NoTwoPrimaries ==
    ~ \E p \in DOMAIN photos, q \in DOMAIN photos :
          /\ p # q
          /\ photos[p].vehicle = photos[q].vehicle
          /\ photos[p].is_primary
          /\ photos[q].is_primary

----------------------------------------------------------------------------
(* Vehicle upload *)

\* C10: when VehicleUploadView answers anything but 201 after entering its
\* transaction, no Location, Vehicle, VehiclePhoto or VehicleAvailability row
\* created by that request is left in the store.
C10_UploadAllOrNothing ==
    (resp.op = "vehicle_upload" /\ resp.began /\ resp.status # 201)
        => /\ \A l \in DOMAIN locations : l <= resp.mark.location
           /\ \A v \in DOMAIN vehicles : v <= resp.mark.vehicle
           /\ \A p \in DOMAIN photos : p <= resp.mark.photo
           /\ \A a \in DOMAIN slots : a <= resp.mark.slot

----------------------------------------------------------------------------
(* OTP verification *)

VerifyOps == {"verify_email", "verify_phone"}

\* C7: a verification step that names an existing user and submits a value
\* whose str() equals the user's stored, non-empty code sets the matching
\* verified flag, stores "" as the code and answers 200.
C7_ExactCodeVerifies ==
    [][\A k \in AccountKeys, x \in OtpInputs :
          (/\ Lookup(k) # None
           /\ users[Lookup(k)[1]].otp # ""
           /\ PyStr(x) = users[Lookup(k)[1]].otp)
          => /\ VerifyEmail(k, x)
                => /\ users'[Lookup(k)[1]].email_verified
                   /\ users'[Lookup(k)[1]].otp = ""
                   /\ resp'.status = 200
             /\ VerifyPhone(k, x)
                => /\ users'[Lookup(k)[1]].phone_verified
                   /\ users'[Lookup(k)[1]].otp = ""
                   /\ resp'.status = 200]_vars

\* a verification has just succeeded: flag set, code cleared, 200
C7_Witness ==
    /\ resp.op \in VerifyOps
    /\ resp.status = 200
    /\ resp.user \in DOMAIN users
    /\ users[resp.user].otp = ""
    /\ \/ resp.op = "verify_email" /\ users[resp.user].email_verified
       \/ resp.op = "verify_phone" /\ users[resp.user].phone_verified

\* C8: a verification step that names an existing user and submits anything
\* else -- a different code, an empty or missing one -- answers 400 and
\* changes no field of any user.
C8_OtherValueRejected ==
    [][\A k \in AccountKeys, x \in OtpInputs :
          (/\ Lookup(k) # None
           /\ PyStr(x) # users[Lookup(k)[1]].otp
           /\ (VerifyEmail(k, x) \/ VerifyPhone(k, x)))
          => /\ resp'.status = 400
             /\ users' = users]_vars

\* a wrong, non-empty code has just been rejected for a user that has a code
\* stored and is still unverified
C8_Witness ==
    /\ resp.op \in VerifyOps
    /\ resp.status = 400
    /\ resp.user \in DOMAIN users
    /\ users[resp.user].otp # ""
    /\ ~users[resp.user].email_verified
    /\ ~users[resp.user].phone_verified

\* C9: while a user's stored code is "" (as a successful verification leaves
\* it, until ResendOTP or UserAddPhone stores a new one), no verification
\* step for that user answers 200 or changes a user, whatever is submitted.
C9_ClearedCodeNeverVerifies ==
    [][\A k \in AccountKeys, x \in OtpInputs :
          (/\ Lookup(k) # None
           /\ users[Lookup(k)[1]].otp = ""
           /\ (VerifyEmail(k, x) \/ VerifyPhone(k, x)))
          => /\ resp'.status # 200
             /\ users' = users]_vars

\* a second verification of an already verified user, whose code is cleared,
\* has just been refused
C9_Witness ==
    /\ resp.op \in VerifyOps
    /\ resp.status = 400
    /\ resp.user \in DOMAIN users
    /\ users[resp.user].otp = ""
    /\ users[resp.user].email_verified \/ users[resp.user].phone_verified

----------------------------------------------------------------------------
(* Search by date, time, location and type: AvailableVehicle *)

\* str.lower() on the letters the place names use
Lower(c) ==
    CASE c = "P" -> "p" [] c = "M" -> "m" [] c = "H" -> "h" [] c = "G" -> "g"
      [] c = "N" -> "n" [] c = "U" -> "u" [] c = "A" -> "a" [] c = "O" -> "o"
      [] OTHER -> c

\* the __icontains lookup: needle occurs in hay, letter case ignored
IContains(hay, needle) ==
    \E i \in 1..(Len(hay) - Len(needle) + 1) :
        \A j \in 1..Len(needle) : Lower(hay[i + j - 1]) = Lower(needle[j])

\* datetime.strptime(text, '%Y-%m-%d').date(): the day, or None where
\* strptime raises ValueError
StrpDate(text) ==
    CASE text = "2025-01-01" -> Some(1)
      [] text = "2025-01-02" -> Some(2)
      [] OTHER -> None

\* datetime.strptime(text, '%H:%M:%S').time(): the hour, or None where
\* strptime raises ValueError ('%H:%M' texts carry no seconds)
StrpTime(text) ==
    CASE text = "09:00:00" -> Some(9)
      [] text = "12:00:00" -> Some(12)
      [] text = "18:00:00" -> Some(18)
      [] OTHER -> None

DateTexts == {"2025-01-01", "2025-01-02"}
TimeTexts == {"09:00:00", "12:00:00", "18:00:00"}

\* the slots POSTed to /vehicle-availability/: a wide one, an unavailable
\* one, ones that start late or end early in date or in time of day, and
\* ones that leave a time empty (both time columns are null=True)
WideSlot ==
    [start_date |-> 1, end_date |-> 2, start_time |-> Some(9),
     end_time |-> Some(18), is_available |-> TRUE]
SlotInputs ==
    {WideSlot,
     [WideSlot EXCEPT !.is_available = FALSE],
     [WideSlot EXCEPT !.start_date = 2],
     [WideSlot EXCEPT !.end_date = 1],
     [WideSlot EXCEPT !.start_time = Some(12)],
     [WideSlot EXCEPT !.end_time = Some(12)],
     [WideSlot EXCEPT !.start_time = None],
     [WideSlot EXCEPT !.end_time = None]}

\* POST /vehicle-availability/ : VehicleAvailabilityViewSet.create (generic)
SlotCreate(v, d) ==
    /\ seq.slot < MaxSlots
    /\ IF v \in DOMAIN vehicles
       THEN /\ slots' = Extend(slots, seq.slot + 1, SlotRow(v, d))
            /\ seq' = [seq EXCEPT !.slot = @ + 1]
            /\ resp' = [op |-> "slot_create", status |-> 201, user |-> 0]
       ELSE /\ resp' = [op |-> "slot_create", status |-> 400, user |-> 0]
            /\ UNCHANGED <<slots, seq>>
    /\ UNCHANGED <<users, vehicles, locations, reviews, photos, tasks, now, calls, issued, rides>>

QueryFields ==
    {"location", "start_date", "end_date", "start_time", "end_time",
     "vehicle_type"}

\* Vehicle.objects.filter(is_available, is_verified, vehicle_type)
\*     .filter(Q(location__city__icontains) | Q(location__state__icontains))
Candidates(vehicle_type, location) ==
    {v \in DOMAIN vehicles :
        /\ vehicles[v].is_available
        /\ vehicles[v].is_verified
        /\ vehicles[v].vehicle_type = vehicle_type
        /\ \/ IContains(locations[vehicles[v].location].city, location)
           \/ IContains(locations[vehicles[v].location].state, location)}

\* vehicle.availability_slots.filter(is_available=True,
\*     start_date__lte=start_date, end_date__gte=end_date)
SlotsFor(v, start_date, end_date) ==
    {a \in DOMAIN slots :
        /\ slots[a].vehicle = v
        /\ slots[a].is_available
        /\ slots[a].start_date <= start_date
        /\ slots[a].end_date >= end_date}

\* a test that asks only that the slot starts by start_time and ends no
\* earlier than end_time
SlotCheck_CoverOnly(slot, start_time, end_time) ==
    IF slot.start_time = None THEN "crash"
    ELSE IF slot.end_time = None THEN "crash"
    ELSE IF start_time >= slot.start_time[1] /\ end_time <= slot.end_time[1]
    THEN "match" ELSE "nomatch"

\* the `if` of the inner loop, left to right with the short circuit of
\* `and`: comparing a time with None raises TypeError
SlotCheck(slot, start_time, end_time) ==
    IF slot.start_time = None THEN "crash"
    ELSE IF ~(start_time >= slot.start_time[1]) THEN "nomatch"
    ELSE IF slot.end_time = None THEN "crash"
    ELSE IF ~(start_time <= slot.end_time[1]) THEN "nomatch"
    ELSE IF ~(end_time >= slot.start_time[1]) THEN "nomatch"
    ELSE IF ~(end_time <= slot.end_time[1]) THEN "nomatch"
    ELSE "match"

\* `for slot in availability_slots`, up to the break: Meta.ordering sorts
\* the rows by start_date and leaves rows of one start_date in an order the
\* database chooses, so the first row that matches or raises may be any of
\* the earliest such rows
RECURSIVE ScanSlots(_, _, _)
ScanSlots(rows, start_time, end_time) ==
    IF rows = {} THEN {"nomatch"}
    ELSE LET first == CHOOSE a \in rows :
                          \A b \in rows : slots[a].start_date <= slots[b].start_date
             head == {a \in rows : slots[a].start_date = slots[first].start_date}
             ends == {SlotCheck(slots[a], start_time, end_time) : a \in head}
                        \cap {"match", "crash"}
         IN IF ends # {} THEN ends
            ELSE ScanSlots(rows \ head, start_time, end_time)

\* `field not in data or not data[field]`: a parameter that is missing and
\* one that is empty are both written as the empty text
Blank(q, f) == IF f = "location" THEN q[f] = <<>> ELSE q[f] = ""

AvailResponse(status, result) ==
    [op |-> "available_vehicle", status |-> status, result |-> result]

\* GET of AvailableVehicle: the responses the request can end with
AvailableVehicleGet(q) ==
    IF \E f \in QueryFields : Blank(q, f)
    THEN {AvailResponse(400, {})}
    ELSE IF None \in {StrpDate(q.start_date), StrpDate(q.end_date),
                      StrpTime(q.start_time), StrpTime(q.end_time)}
    THEN {AvailResponse(400, {})}
    ELSE LET start_date == StrpDate(q.start_date)[1]
             end_date == StrpDate(q.end_date)[1]
             start_time == StrpTime(q.start_time)[1]
             end_time == StrpTime(q.end_time)[1]
             vs == Candidates(q.vehicle_type, q.location)
             out(v) == ScanSlots(SlotsFor(v, start_date, end_date),
                                 start_time, end_time)
         IN {AvailResponse(500, {}) : v \in {w \in vs : "crash" \in out(w)}}
            \cup {AvailResponse(200, {v \in vs : "match" \in out(v)}) :
                    x \in {y \in {1} : \A v \in vs : out(v) # {"crash"}}}

AvailableVehicle(q) ==
    /\ resp' \in AvailableVehicleGet(q)
    /\ UNCHANGED <<users, vehicles, locations, reviews, photos, slots, seq, tasks, now, calls, issued, rides>>

\* the queries: every pair of dates and of times for a place text that
\* finds every vehicle; and, one at a time, another type, a text that finds
\* the second vehicle by its state, a place nobody is in, and each
\* parameter missing or mistyped
BaseQuery ==
    [location |-> <<"N">>, vehicle_type |-> "4_wheeler",
     start_date |-> "2025-01-01", end_date |-> "2025-01-02",
     start_time |-> "09:00:00", end_time |-> "18:00:00"]
WellFormedQueries ==
    [location : {<<"N">>}, vehicle_type : {"4_wheeler"},
     start_date : DateTexts, end_date : DateTexts,
     start_time : TimeTexts, end_time : TimeTexts]
     \cup {[BaseQuery EXCEPT !.vehicle_type = "Bicycle"],
           [BaseQuery EXCEPT !.location = <<"g", "O", "a">>],
           [BaseQuery EXCEPT !.location = <<"x">>]}
Queries ==
    WellFormedQueries
    \cup {[BaseQuery EXCEPT ![f] = ""] : f \in QueryFields \ {"location"}}
    \cup {[BaseQuery EXCEPT !.location = <<>>],
          [BaseQuery EXCEPT !.start_date = "01/01/2025"],
          [BaseQuery EXCEPT !.end_date = "2025-02-30"],
          [BaseQuery EXCEPT !.start_time = "09:00"],
          [BaseQuery EXCEPT !.end_time = "25:00:00"]}

\* a catalog of one verified vehicle in each place
InitAvail ==
    /\ users = [u \in UserIds |-> NewUser]
    /\ vehicles = [v \in DOMAIN Places |->
                     [NewVehicle(1, v, "4_wheeler", TRUE) EXCEPT !.is_verified = TRUE]]
    /\ locations = Places
    /\ reviews = {}
    /\ photos = <<>>
    /\ slots = <<>>
    /\ seq = [location |-> Len(Places), vehicle |-> Len(Places), photo |-> 0, slot |-> 0]
    /\ tasks = {}
    /\ now = 0
    /\ calls = <<>>
    /\ issued = <<>>
    /\ rides = {}
    /\ resp = NoResponse

NextAvail ==
    \/ \E v \in DOMAIN Places, d \in SlotInputs : SlotCreate(v, d)
    \/ \E q \in Queries : AvailableVehicle(q)

SpecAvail == InitAvail /\ [][NextAvail]_vars

\* the query's four values as the view parses them
Parsed(q) ==
    [start_date |-> StrpDate(q.start_date)[1], end_date |-> StrpDate(q.end_date)[1],
     start_time |-> StrpTime(q.start_time)[1], end_time |-> StrpTime(q.end_time)[1]]

\* the vehicles a response hands back
Returned(r) == IF r.status = 200 THEN r.result ELSE {}

\* v has a slot that covers the query as the specification words it
HasCoveringSlot(v, p) ==
    \E a \in DOMAIN slots :
        /\ slots[a].vehicle = v
        /\ slots[a].is_available
        /\ slots[a].start_date <= p.start_date
        /\ slots[a].end_date >= p.end_date
        /\ slots[a].start_time # None
        /\ slots[a].end_time # None
        /\ slots[a].start_time[1] <= p.start_time
        /\ slots[a].end_time[1] >= p.end_time

\* C5: for every well-formed query, midnight-spanning ones included, and
\* every vehicle passing the type and location filter, the vehicle is in
\* the answer if and only if one of its slots is available and covers the
\* query's dates and times.
C5_ReturnedIffCovered ==
    \A q \in WellFormedQueries :
        \A r \in AvailableVehicleGet(q) :
            \A v \in Candidates(q.vehicle_type, q.location) :
                v \in Returned(r) <=> HasCoveringSlot(v, Parsed(q))

MidnightQueries ==
    {q \in WellFormedQueries : Parsed(q).end_time < Parsed(q).start_time}

\* C6 as stated: a query with end_time < start_time returns no vehicle.
C6_MidnightNeverMatches ==
    \A q \in MidnightQueries :
        \A r \in AvailableVehicleGet(q) : Returned(r) = {}

\* v has an available slot over the query's dates whose time range holds
\* both query times
HasContainingSlot(v, p) ==
    \E a \in SlotsFor(v, p.start_date, p.end_date) :
        /\ slots[a].start_time # None
        /\ slots[a].end_time # None
        /\ slots[a].start_time[1] <= p.end_time
        /\ p.start_time <= slots[a].end_time[1]

\* C6, amended: a query with end_time < start_time returns a vehicle only
\* through an available slot over its dates whose time range holds both
\* query times (slot.start_time <= end_time and start_time <= slot.end_time);
\* no other slot makes the vehicle returned.
C6_MidnightMatchesOnlyInside ==
    \A q \in MidnightQueries :
        \A r \in AvailableVehicleGet(q) :
            \A v \in Returned(r) : HasContainingSlot(v, Parsed(q))

\* the last answer is a 200 to a midnight-spanning query that returned one
\* vehicle and left another candidate out
C6_Witness ==
    /\ resp.op = "available_vehicle"
    /\ resp.status = 200
    /\ \E q \in MidnightQueries :
          /\ resp \in AvailableVehicleGet(q)
          /\ resp.result # {}
          /\ Candidates(q.vehicle_type, q.location) \ resp.result # {}

----------------------------------------------------------------------------
(* Account deletion *)

\* DELETE of UserDeleteView: the soft delete
UserDelete(user_id) ==
    /\ IF ~Truthy(user_id)
       THEN /\ resp' = [op |-> "user_delete", status |-> 400, user |-> 0]
            /\ UNCHANGED users
       ELSE IF ParseId(user_id) = None
       THEN /\ resp' = [op |-> "user_delete", status |-> 500, user |-> 0]
            /\ UNCHANGED users
       ELSE IF ById(user_id) = None
       THEN /\ resp' = [op |-> "user_delete", status |-> 404, user |-> 0]
            /\ UNCHANGED users
       ELSE LET u == ById(user_id)[1]
            IN /\ users' = [users EXCEPT ![u] = Saved([@ EXCEPT !.is_active = FALSE])]
               /\ resp' = [op |-> "user_delete", status |-> 200, user |-> u]
    /\ UNCHANGED <<vehicles, locations, reviews, photos, slots, seq, tasks, now, calls, issued, rides>>

\* ids named by requests: each user, one that does not exist, none at all
UserKeys == {JInt(u) : u \in 1..(NUsers + 1)} \cup {Absent}

\* the two ways a client deletes an account, on a catalog that takes reviews
NextUserDelete ==
    \/ \E k \in UserKeys : UserDelete(k)
    \/ \E u \in UserIds : UserDestroy(u)
    \/ \E v \in VehicleIds, u \in UserIds : ReviewCreate(v, u, MaxRating)

SpecUserDelete == InitCatalog /\ [][NextUserDelete]_vars

\* C11: no step removes a user row, and a step of either deletion endpoint
\* leaves every vehicle and review in place and changes nothing of a user
\* but is_active (and the updated_at stamp of the save).
C11_UsersNeverRemoved ==
    [][/\ DOMAIN users \subseteq DOMAIN users'
       /\ resp'.op \in {"user_delete", "user_destroy"}
          => /\ vehicles' = vehicles
             /\ reviews' = reviews
             /\ \A u \in DOMAIN users :
                   [users'[u] EXCEPT !.is_active = TRUE, !.updated_at = 0]
                       = [users[u] EXCEPT !.is_active = TRUE, !.updated_at = 0]]_vars

----------------------------------------------------------------------------
(* Review creations that overlap *)

NCallers == 2
Callers == 1..NCallers

Idle(c) == c \notin DOMAIN calls
Drop(f, k) == Restrict(f, DOMAIN f \ {k})

\* the first half of ReviewViewSet.create for caller c: serializer.is_valid().
\* The rating validators run here; the serializer has no validator for the
\* pair, so what it would have seen of the pair is only noted.
ReviewCreateBegin(c, v, u, r) ==
    /\ Idle(c)
    /\ Cardinality(reviews) < MaxReviews
    /\ IF r \notin MinRating..MaxRating
       THEN /\ resp' = [op |-> "review_create", status |-> 400, caller |-> c,
                        stored |-> FALSE, free_before |-> ~HasReview(v, u)]
            /\ UNCHANGED calls
       ELSE /\ calls' = Extend(calls, c,
                           [op |-> "review_create", vehicle |-> v, user |-> u,
                            rating |-> r, free_before |-> ~HasReview(v, u)])
            /\ UNCHANGED resp
    /\ UNCHANGED <<users, vehicles, locations, reviews, photos, slots, seq, tasks, now, issued, rides>>

\* the second half: the INSERT, under the foreign keys and the unique
\* constraint of the table, and what create() does after it
ReviewCreateInsert(c) ==
    /\ ~Idle(c)
    /\ calls[c].op = "review_create"
    /\ Cardinality(reviews) < MaxReviews
    /\ LET v == calls[c].vehicle
           u == calls[c].user
       IN IF v \notin DOMAIN vehicles \/ u \notin DOMAIN users \/ HasReview(v, u)
          THEN /\ resp' = [op |-> "review_create", status |-> 500, caller |-> c,
                           stored |-> FALSE, free_before |-> calls[c].free_before]
               /\ UNCHANGED <<reviews, vehicles>>
          ELSE LET rs == reviews \cup {Row(v, u, calls[c].rating)}
                   out == AfterReviewCreated(vehicles, rs, v)
               IN /\ reviews' = rs
                  /\ vehicles' = out.vehicles
                  /\ resp' = [op |-> "review_create", status |-> out.status,
                              caller |-> c, stored |-> TRUE,
                              free_before |-> calls[c].free_before]
    /\ calls' = Drop(calls, c)
    /\ UNCHANGED <<users, locations, photos, slots, seq, tasks, now, issued, rides>>

\* the (vehicle, user) pairs the overlapping callers write reviews for
RacePairs == {<<1, 1>>, <<1, 2>>}

NextReviewRace ==
    \/ \E c \in Callers, p \in RacePairs,
          r \in {MinRating, MaxRating, MaxRating + 1} :
          ReviewCreateBegin(c, p[1], p[2], r)
    \/ \E c \in Callers : ReviewCreateInsert(c)

SpecReviewRace == InitCatalog /\ [][NextReviewRace]_vars

\* C12: in every state no two stored reviews share their (vehicle, user)
\* pair, however the creations overlap; and a creation that stores no row
\* leaves every vehicle's rating and total_bookings as they were.
C12_OneReviewPerPair ==
    /\ [](\A x \in reviews, y \in reviews :
             (x.vehicle = y.vehicle /\ x.user = y.user) => x = y)
    /\ [][(resp'.op = "review_create" /\ ~resp'.stored)
             => \A v \in DOMAIN vehicles :
                   /\ vehicles'[v].rating = vehicles[v].rating
                   /\ vehicles'[v].total_bookings = vehicles[v].total_bookings]_vars

\* a creation that found the pair free when it was validated has just been
\* refused at the INSERT, because an overlapping creation stored the pair
C12_Witness ==
    /\ resp.op = "review_create"
    /\ resp.status = 500
    /\ ~resp.stored
    /\ resp.free_before
    /\ reviews # {}

----------------------------------------------------------------------------
(* Vehicle flags *)

\* POST /vehicles/<pk>/verify_vehicle/ : VehicleViewSet.verify_vehicle
VerifyVehicle(pk) ==
    /\ IF pk \notin DOMAIN vehicles
       THEN resp' = [op |-> "verify_vehicle", status |-> 404] /\ UNCHANGED vehicles
       ELSE /\ vehicles' = [vehicles EXCEPT ![pk].is_verified = TRUE]
            /\ resp' = [op |-> "verify_vehicle", status |-> 200]
    /\ UNCHANGED <<users, locations, reviews, photos, slots, seq, tasks, now, calls, issued, rides>>

\* POST /vehicles/<pk>/toggle_availability/ : VehicleViewSet.toggle_availability
ToggleAvailability(pk) ==
    /\ IF pk \notin DOMAIN vehicles
       THEN resp' = [op |-> "toggle_availability", status |-> 404] /\ UNCHANGED vehicles
       ELSE /\ vehicles' = [vehicles EXCEPT ![pk].is_available = ~@]
            /\ resp' = [op |-> "toggle_availability", status |-> 200]
    /\ UNCHANGED <<users, locations, reviews, photos, slots, seq, tasks, now, calls, issued, rides>>

----------------------------------------------------------------------------
(* Nearby search.  urls.py routes vehicles/nearby/ to NearbyVehiclesView; the *)
(* view and the coordinates of Location are not in the source tree, and are  *)
(* written here as the specification describes them.                         *)

\* a point is its position along one meridian, in units of 100 m, so that
\* the geodesic distance of two points is the difference of their positions
Distance(a, b) == IF a >= b THEN a - b ELSE b - a

\* "radius (default 10 km)"
DefaultRadius == 100

\* the coordinates a Location can be given: none, 4.8 km and 5.2 km up the
\* meridian
CoordInputs == {None, Some(48), Some(52)}

\* PATCH /locations/<pk>/ : the generic update of LocationViewSet, writing
\* the coordinates
LocationSetCoords(pk, coords) ==
    /\ IF pk \notin DOMAIN locations
       THEN resp' = [op |-> "location_update", status |-> 404] /\ UNCHANGED locations
       ELSE /\ locations' = [locations EXCEPT ![pk].coords = coords]
            /\ resp' = [op |-> "location_update", status |-> 200]
    /\ UNCHANGED <<users, vehicles, reviews, photos, slots, seq, tasks, now, calls, issued, rides>>

\* "every available+verified vehicle that has a geocoded location"
Geocoded(vs, ls) ==
    {v \in DOMAIN vs :
        /\ vs[v].is_available
        /\ vs[v].is_verified
        /\ ls[vs[v].location].coords # None}

\* a radius test that leaves out the vehicles exactly at the radius
WithinRadius_Strict(d, radius) == d < radius

\* "retain those within radius"
WithinRadius(d, radius) == d <= radius

\* "attach the computed distance to each result"
Hit(v, point) ==
    [vehicle |-> v, distance |-> Distance(point, locations[vehicles[v].location].coords[1])]

RECURSIVE InsertHit(_, _)
\* one step of the sort: h goes before the first hit that is farther
InsertHit(sorted, h) ==
    IF sorted = <<>> THEN <<h>>
    ELSE IF h.distance < Head(sorted).distance THEN <<h>> \o sorted
    ELSE <<Head(sorted)>> \o InsertHit(Tail(sorted), h)

RECURSIVE SortHits(_, _)
\* "return results ascending by distance"
SortHits(sorted, todo) ==
    IF todo = {} THEN sorted
    ELSE LET h == CHOOSE x \in todo : \A y \in todo : x.vehicle <= y.vehicle
         IN SortHits(InsertHit(sorted, h), todo \ {h})

\* the body of the nearby search: scan, filter, sort
NearbyVehicles(point, radius) ==
    LET r == IF radius = None THEN DefaultRadius ELSE radius[1]
        hits == {Hit(v, point) : v \in Geocoded(vehicles, locations)}
    IN SortHits(<<>>, {h \in hits : WithinRadius(h.distance, r)})

\* GET vehicles/nearby/
NearbySearch(point, radius) ==
    /\ resp' = [op |-> "nearby", status |-> 200, point |-> point,
                radius |-> radius, result |-> NearbyVehicles(point, radius)]
    /\ UNCHANGED <<users, vehicles, locations, reviews, photos, slots, seq, tasks, now, calls, issued, rides>>

\* a catalog whose vehicles each stand at a location of their own, none
\* geocoded yet
InitNearby ==
    /\ users = [u \in UserIds |-> NewUser]
    /\ vehicles = [v \in VehicleIds |-> NewVehicle(1, v, "4_wheeler", TRUE)]
    /\ locations = [l \in VehicleIds |->
                      [city |-> PlaceOf(l).city, state |-> PlaceOf(l).state,
                       coords |-> None]]
    /\ reviews = {}
    /\ photos = <<>>
    /\ slots = <<>>
    /\ seq = [location |-> NVehicles, vehicle |-> NVehicles, photo |-> 0, slot |-> 0]
    /\ tasks = {}
    /\ now = 0
    /\ calls = <<>>
    /\ issued = <<>>
    /\ rides = {}
    /\ resp = NoResponse

\* query points at either end of the stretch, radii of 5 km, 4 km, and none
\* given
QueryPoints == {0, 100}
QueryRadii == {None, Some(50), Some(48)}

NextNearby ==
    \/ \E v \in VehicleIds : VerifyVehicle(v)
    \/ \E v \in VehicleIds : ToggleAvailability(v)
    \/ \E l \in VehicleIds, c \in CoordInputs : LocationSetCoords(l, c)
    \/ \E p \in QueryPoints, r \in QueryRadii : NearbySearch(p, r)

SpecNearby == InitNearby /\ [][NextNearby]_vars

\* C13: the answer of a nearby search lists exactly the available and
\* verified vehicles that have coordinates and lie within the radius of the
\* query point, each once and with its distance, nearest first; a vehicle
\* without coordinates is not in it.
C13_NearbyExactAndSorted ==
    resp.op = "nearby"
        => LET res == resp.result
               r == IF resp.radius = None THEN DefaultRadius ELSE resp.radius[1]
               at(v) == locations[vehicles[v].location].coords
           IN /\ {res[i].vehicle : i \in DOMAIN res}
                    = {v \in DOMAIN vehicles :
                          /\ vehicles[v].is_available
                          /\ vehicles[v].is_verified
                          /\ at(v) # None
                          /\ Distance(resp.point, at(v)[1]) <= r}
              /\ \A i \in DOMAIN res, j \in DOMAIN res :
                    /\ i < j => res[i].distance <= res[j].distance
                    /\ i # j => res[i].vehicle # res[j].vehicle
              /\ \A i \in DOMAIN res :
                    res[i].distance = Distance(resp.point, at(res[i].vehicle)[1])

\* a search has returned only a vehicle lying exactly at the radius, and
\* left out a geocoded vehicle stored before it that lies beyond
C13_Witness ==
    /\ resp.op = "nearby"
    /\ resp.radius # None
    /\ Len(resp.result) = 1
    /\ resp.result[1].distance = resp.radius[1]
    /\ \E v \in Geocoded(vehicles, locations) : v < resp.result[1].vehicle


----------------------------------------------------------------------------
(* Vehicle upload: required documents *)

\* the request names every one of the three documents
HasAllDocs(req) == RequiredDocs \subseteq req.docs

\* a request that is complete apart from its documents
PlainUpload(req) ==
    /\ req.owner_id # None
    /\ req.has_location
    /\ req.location = "valid"
    /\ req.vehicle = "valid"
    /\ req.slots = AbsentSlots

\* uploads without photos and slots and with a well-formed location: what
\* varies is the owner, the type, the documents and the vehicle's fields
DocRequests ==
    {r \in [owner_id : {None, Some(1)},
            has_location : BOOLEAN,
            vehicle_type : {"", "Bicycle", "4_wheeler"},
            docs : {{}, {"vehicle_rc", "vehicle_insurance"}, RequiredDocs},
            location : {"valid"},
            vehicle : {"valid", "invalid"},
            photos : {0},
            slots : {AbsentSlots}] :
        /\ r.vehicle_type = "" => r.vehicle # "valid" \/ StopsAtLocation(r)
        /\ StopsAtLocation(r) => r.vehicle = "valid"}

NextUploadDocs ==
    \/ \E req \in DocRequests : VehicleUpload(req)
    \/ \E v \in 1..MaxLocations : VerifyVehicleTask(v)

SpecUploadDocs == InitEmpty /\ [][NextUploadDocs]_vars

\* C14: VehicleUploadView answers 400 before its transaction and creates no
\* row when vehicle_type is not 'Bicycle' (absent included) and one of the
\* three documents is missing; a 'Bicycle' is never turned away for its
\* documents, and one with none of them is stored with answer 201.
C14_DocumentsRequiredUnlessBicycle ==
    [][\A req \in DocRequests :
          (req.has_location /\ VehicleUpload(req))
          => /\ (req.vehicle_type # "Bicycle" /\ ~HasAllDocs(req))
                  => /\ resp'.status = 400
                     /\ ~resp'.began
                     /\ UNCHANGED <<locations, vehicles, photos, slots, seq>>
             /\ (/\ req.vehicle_type = "Bicycle"
                 /\ req.owner_id # None
                 /\ req.has_location)
                  => resp'.began
             /\ (req.vehicle_type = "Bicycle" /\ PlainUpload(req))
                  => /\ resp'.status = 201
                     /\ seq.vehicle + 1 \in DOMAIN vehicles'
                     /\ vehicles'[seq.vehicle + 1].vehicle_type = "Bicycle"]_vars

\* an upload was turned away for its pollution certificate alone while a
\* bicycle stored earlier without any document is in the catalog
C14_Witness ==
    /\ resp.op = "vehicle_upload"
    /\ resp.status = 400
    /\ ~resp.began
    /\ resp.error = {"vehicle_pollution_certificate"}
    /\ \E v \in DOMAIN vehicles :
          vehicles[v].vehicle_type = "Bicycle" /\ ~vehicles[v].docs


----------------------------------------------------------------------------
(* OTP expiry *)

\* the clock moves in steps of TickMinutes, up to MaxNow
TickMinutes == 5
MaxNow == 15

\* timedelta(minutes=10) of cleanup_expired_otps
OtpLifetime == 10

Tick ==
    /\ now + TickMinutes <= MaxNow
    /\ now' = now + TickMinutes
    /\ UNCHANGED <<users, vehicles, locations, reviews, photos, slots, seq,
                   tasks, calls, issued, rides, resp>>

\* a filter that also takes the rows updated exactly ten minutes ago
Expired_Inclusive(row, t) == row.updated_at <= t - OtpLifetime

\* filter(otp__isnull=False, updated_at__lt=expired_time): the column is a
\* CharField that is never NULL
Expired(row, t) == row.updated_at < t - OtpLifetime

\* the celery task cleanup_expired_otps: one UPDATE that sets otp alone; a
\* queryset update() runs no save() and so leaves updated_at as it is
CleanupExpiredOtps ==
    /\ users' = [u \in DOMAIN users |->
                    IF Expired(users[u], now)
                    THEN [users[u] EXCEPT !.otp = ""]
                    ELSE users[u]]
    /\ resp' = [op |-> "cleanup_expired_otps", status |-> 0, user |-> 0,
                updated_count |->
                    Cardinality({u \in DOMAIN users : Expired(users[u], now)})]
    /\ UNCHANGED <<vehicles, locations, reviews, photos, slots, seq, tasks,
                   now, calls, issued, rides>>

\* POST of UserViewSet.verify_driving_license (get_object answers 404)
VerifyDrivingLicense(pk) ==
    /\ IF pk \notin DOMAIN users
       THEN /\ resp' = [op |-> "verify_driving_license", status |-> 404, user |-> 0]
            /\ UNCHANGED users
       ELSE /\ users' = [users EXCEPT ![pk] =
                            Saved([@ EXCEPT !.driving_license_verified = TRUE])]
            /\ resp' = [op |-> "verify_driving_license", status |-> 200, user |-> pk]
    /\ UNCHANGED <<vehicles, locations, reviews, photos, slots, seq, tasks,
                   now, calls, issued, rides>>

\* PUT of UserUpdateProfileView with a first_name.  UserSerializer is not in
\* serializers.py; `valid` is the verdict of its is_valid(), and save()
\* writes the named column.
UserUpdateProfile(user_id, first_name, valid) ==
    /\ IF ~Truthy(user_id)
       THEN /\ resp' = [op |-> "update_profile", status |-> 400, user |-> 0]
            /\ UNCHANGED users
       ELSE IF ParseId(user_id) = None
       THEN /\ resp' = [op |-> "update_profile", status |-> 500, user |-> 0]
            /\ UNCHANGED users
       ELSE IF ById(user_id) = None
       THEN /\ resp' = [op |-> "update_profile", status |-> 404, user |-> 0]
            /\ UNCHANGED users
       ELSE LET u == ById(user_id)[1]
            IN IF valid
               THEN /\ users' = [users EXCEPT ![u] =
                                    Saved([@ EXCEPT !.first_name = first_name])]
                    /\ resp' = [op |-> "update_profile", status |-> 200, user |-> u]
               ELSE /\ resp' = [op |-> "update_profile", status |-> 400, user |-> u]
                    /\ UNCHANGED users
    /\ UNCHANGED <<vehicles, locations, reviews, photos, slots, seq, tasks,
                   now, calls, issued, rides>>

\* one account, registered at time 0 with a fresh code
InitOneAccount ==
    /\ users \in [{1} -> {[NewUser EXCEPT !.otp = c] : c \in Codes}]
    /\ vehicles = <<>>
    /\ locations = <<>>
    /\ reviews = {}
    /\ photos = <<>>
    /\ slots = <<>>
    /\ seq = [location |-> 0, vehicle |-> 0, photo |-> 0, slot |-> 0]
    /\ tasks = {}
    /\ now = 0
    /\ calls = <<>>
    /\ issued = [u \in {1} |-> 0]
    /\ rides = {}
    /\ resp = NoResponse

\* the account, an id that names no one, and no id
TimedKeys == {JInt(1), JInt(2), Absent}

\* the codes as strings, and nothing
TimedInputs == {JStr(c) : c \in Codes} \cup {Absent}

NextOtpTimed ==
    \/ Tick
    \/ CleanupExpiredOtps
    \/ \E k \in TimedKeys, x \in TimedInputs : VerifyEmail(k, x)
    \/ \E k \in TimedKeys, x \in TimedInputs : VerifyPhone(k, x)
    \/ \E k \in TimedKeys, c \in Codes, ok \in BOOLEAN : ResendOTP(k, c, c, ok)
    \/ \E k \in TimedKeys, c \in Codes : UserAddPhone(k, JStr("9000000001"), c, TRUE)
    \/ \E k \in TimedKeys, valid \in BOOLEAN : UserUpdateProfile(k, "B", valid)
    \/ \E k \in TimedKeys : UserDelete(k)
    \/ \E pk \in 1..2 : VerifyDrivingLicense(pk)

SpecOtpTimed == InitOneAccount /\ [][NextOtpTimed]_vars

\* C15: a run of cleanup_expired_otps blanks the code of every user whose
\* row was last updated more than ten minutes before the run, keeps the code
\* of every user updated within the last ten minutes, and changes no other
\* column (flags and updated_at included) and no other table.
C15_SweepClearsOnlyExpired ==
    [][CleanupExpiredOtps
        => /\ DOMAIN users' = DOMAIN users
           /\ \A u \in DOMAIN users :
                 /\ now - users[u].updated_at > OtpLifetime
                        => users'[u].otp = ""
                 /\ now - users[u].updated_at <= OtpLifetime
                        => users'[u].otp = users[u].otp
                 /\ \A f \in DOMAIN users[u] \ {"otp"} :
                        users'[u][f] = users[u][f]
           /\ UNCHANGED <<vehicles, locations, reviews, photos, slots>>]_vars

\* a sweep has blanked the code of an account nobody verified, whose row is
\* still stamped more than ten minutes back
C15_Witness ==
    /\ resp.op = "cleanup_expired_otps"
    /\ resp.updated_count = 1
    /\ users[1].otp = ""
    /\ ~users[1].email_verified
    /\ ~users[1].phone_verified
    /\ now - users[1].updated_at > OtpLifetime


\* the saves that touch no OTP column: profile update, deactivation and
\* license verification
UnrelatedSaves == {"update_profile", "user_delete", "verify_driving_license"}

\* a step in which a handler answered with `ops`; the clock's own step
\* leaves the last answer standing
Answered(ops) == resp'.op \in ops /\ now' = now

C17_NoLateAcceptance ==
    [][(Answered(VerifyOps) /\ resp'.status = 200)
        => now - issued[resp'.user] <= OtpLifetime]_vars


----------------------------------------------------------------------------
(* Login *)

\* the accounts that log in, and an address that Supabase knows but the
\* local table does not
LoginIds == {1, 2}
Stranger == 3

\* User.private_token, a uuid4 drawn once per row and never edited: the
\* token of account u is the UUID numbered u
TokenOf(u) == u

\* UUIDField.to_python -> uuid.UUID(hex=text): hyphens and letter case do
\* not matter; any other text raises ValidationError (None here); an
\* integer is taken as uuid.UUID(int=...), a UUID that no account holds
Uuid1 == "1b4e28ba-2fa1-41d2-883f-0016d3cca427"
Uuid1Upper == "1B4E28BA-2FA1-41D2-883F-0016D3CCA427"
Uuid2 == "6fa459ea-ee8a-4ca4-894e-db77e160355e"
Uuid9 == "7d444840-9dc0-41d1-b245-5ffdce74fad2"
ParseUuid(x) ==
    IF IsInt(x) THEN Some(0)
    ELSE IF ~IsStr(x) THEN None
    ELSE CASE x.str \in {Uuid1, Uuid1Upper} -> Some(1)
           [] x.str = Uuid2 -> Some(2)
           [] x.str = Uuid9 -> Some(9)
           [] OTHER -> None

\* User.objects.get(phone=...)
ByPhone(phone) ==
    IF IsStr(phone) /\ \E u \in DOMAIN users : users[u].phone = Some(phone.str)
    THEN Some(CHOOSE u \in DOMAIN users : users[u].phone = Some(phone.str))
    ELSE None

\* what supabase.auth.sign_in_with_password does: a session for a confirmed
\* or an unconfirmed address, a response without one, or an exception
SignIns == {"confirmed", "unconfirmed", "nothing", "raise"}

\* the row after `user.email_verified = True; user.save()`, taken when
\* Supabase reports the address confirmed and the row does not
Confirmed(row, supa) ==
    IF ~row.email_verified /\ supa = "confirmed"
    THEN Saved([row EXCEPT !.email_verified = TRUE])
    ELSE row

LoginUnchanged ==
    UNCHANGED <<vehicles, locations, reviews, photos, slots, seq, tasks, now,
                calls, issued, rides>>

\* POST of UserLoginView
UserLogin(email, phone, password, supa) ==
    /\ IF ~(Truthy(email) \/ Truthy(phone)) \/ ~Truthy(password)
       THEN /\ resp' = [op |-> "login", status |-> 400, user |-> 0, named |-> 0]
            /\ UNCHANGED users
       ELSE IF ~Truthy(email) /\ ByPhone(phone) = None
       THEN /\ resp' = [op |-> "login", status |-> 404, user |-> 0, named |-> 0]
            /\ UNCHANGED users
       ELSE LET found == IF Truthy(email) THEN Lookup(email) ELSE ByPhone(phone)
                named == IF found = None THEN 0 ELSE found[1]
            IN IF supa \in {"raise", "nothing"}
               THEN /\ resp' = [op |-> "login", status |-> 401, user |-> 0,
                                named |-> named]
                    /\ UNCHANGED users
               ELSE IF found = None
               THEN /\ resp' = [op |-> "login", status |-> 404, user |-> 0,
                                named |-> 0]
                    /\ UNCHANGED users
               ELSE IF ~users[named].is_active
               THEN /\ resp' = [op |-> "login", status |-> 401, user |-> 0,
                                named |-> named]
                    /\ UNCHANGED users
               ELSE /\ users' = [users EXCEPT ![named] = Confirmed(@, supa)]
                    /\ resp' = [op |-> "login", status |-> 200, user |-> named,
                                named |-> named]
    /\ LoginUnchanged

\* POST of UserAutoLoginView.  A user_id that is no number and a token that
\* is no UUID make get() raise something other than DoesNotExist: the bare
\* except answers 500.  The call to Supabase sits in its own try/except.
UserAutoLogin(user_id, private_token, supabase_token, supa) ==
    /\ LET req == [user_id |-> user_id, private_token |-> private_token,
                   supabase_token |-> supabase_token, supa |-> supa]
           out(status, u) == [op |-> "auto_login", status |-> status,
                              user |-> u, req |-> req]
       IN IF AnyMissing(user_id, private_token)
          THEN resp' = out(400, 0)
          ELSE IF ~IsInt(user_id) \/ ParseUuid(private_token) = None
          THEN resp' = out(500, 0)
          ELSE IF \/ Lookup(user_id) = None
                  \/ TokenOf(user_id.int) # ParseUuid(private_token)[1]
          THEN resp' = out(404, 0)
          ELSE IF ~users[user_id.int].is_active
          THEN resp' = out(401, 0)
          ELSE IF ~users[user_id.int].email_verified
          THEN resp' = out(401, 0)
          ELSE resp' = out(200, user_id.int)
    /\ UNCHANGED users
    /\ LoginUnchanged

\* SupabaseAuthBackend.authenticate: `returned` is the user handed back.
\* The address of an account Supabase knows and the table does not gets a
\* row of its own.
Authenticate(email, password, supa) ==
    /\ IF ~Truthy(email) \/ ~Truthy(password) \/ supa \in {"raise", "nothing"}
       THEN /\ resp' = [op |-> "authenticate", status |-> 0, user |-> 0,
                        returned |-> None]
            /\ UNCHANGED users
       ELSE IF Lookup(email) # None
       THEN LET u == Lookup(email)[1]
            IN /\ users' = [users EXCEPT ![u] = Confirmed(@, supa)]
               /\ resp' = [op |-> "authenticate", status |-> 0, user |-> u,
                           returned |-> Some(u)]
       ELSE /\ users' = Extend(users, email.int,
                               [NewUser EXCEPT !.email_verified = (supa = "confirmed"),
                                               !.updated_at = now])
            /\ resp' = [op |-> "authenticate", status |-> 0, user |-> email.int,
                        returned |-> Some(email.int)]
    /\ LoginUnchanged

\* two registered accounts, the first with a phone number
InitLogin ==
    /\ users = [u \in LoginIds |->
                   IF u = 1 THEN [NewUser EXCEPT !.phone = Some("9000000001")]
                   ELSE NewUser]
    /\ vehicles = <<>>
    /\ locations = <<>>
    /\ reviews = {}
    /\ photos = <<>>
    /\ slots = <<>>
    /\ seq = [location |-> 0, vehicle |-> 0, photo |-> 0, slot |-> 0]
    /\ tasks = {}
    /\ now = 0
    /\ calls = <<>>
    /\ issued = [u \in LoginIds |-> 0]
    /\ rides = {}
    /\ resp = NoResponse

\* addresses and ids named by requests
LoginKeys == {JInt(u) : u \in LoginIds} \cup {JInt(Stranger), Absent}
Passwords == {Absent, JStr("secret")}
TokenInputs ==
    {Absent, JStr(Uuid1), JStr(Uuid1Upper), JStr(Uuid2), JStr(Uuid9),
     JStr("not-a-token")}

NextLogin ==
    \/ \E e \in LoginKeys, ph \in {Absent, JStr("9000000001")},
          pw \in Passwords, supa \in SignIns : UserLogin(e, ph, pw, supa)
    \/ \E k \in LoginKeys \cup {JStr("me")}, t \in TokenInputs,
          st \in {Absent, JStr("jwt")}, ok \in BOOLEAN :
          UserAutoLogin(k, t, st, ok)
    \/ \E e \in LoginKeys, pw \in Passwords, supa \in SignIns :
          Authenticate(e, pw, supa)
    \/ \E k \in LoginKeys : UserDelete(k)

SpecLogin == InitLogin /\ [][NextLogin]_vars

LoginOps == {"login", "auto_login"}

\* C18: a user whose is_active is false is never authenticated -- no login
\* or auto-login naming that user answers 200, a login that Supabase accepts
\* answers 401, and SupabaseAuthBackend.authenticate does not hand the user
\* back.
C18_InactiveNeverAuthenticated ==
    /\ (resp.op \in LoginOps /\ resp.status = 200)
            => users[resp.user].is_active
    /\ (resp.op = "login" /\ resp.named # 0 /\ ~users[resp.named].is_active)
            => resp.status = 401
    /\ (resp.op = "authenticate" /\ resp.returned # None)
            => users[resp.returned[1]].is_active

\* C19: UserAutoLoginView answers 200 exactly when the id names a user whose
\* private_token is the given one and who is active and email-verified; a
\* wrong token is answered 404, an inactive user 401 before verification is
\* looked at, an unverified user 401; supabase_token and what Supabase makes
\* of it change nothing.
C19_AutoLoginByToken ==
    resp.op = "auto_login" /\ ~AnyMissing(resp.req.user_id, resp.req.private_token)
        => LET id == resp.req.user_id
               known == IsInt(id) /\ id.int \in DOMAIN users
               token == ParseUuid(resp.req.private_token)
               right == known /\ token = Some(TokenOf(id.int))
           IN /\ resp.status = 200
                    <=> /\ right
                        /\ users[id.int].is_active
                        /\ users[id.int].email_verified
              /\ (known /\ ~right) => resp.status = 404
              /\ (right /\ ~users[id.int].is_active) => resp.status = 401
              /\ (right /\ ~users[id.int].email_verified) => resp.status = 401


----------------------------------------------------------------------------
(* Overlapping set_primary calls *)

\* a save that also unflags the other photos of the vehicle
SavePhoto_AndClear(ps, pk, row) == [ClearPrimary(ps, row.vehicle) EXCEPT ![pk] = row]

\* photo.save() of a model instance: an UPDATE of every column of that one
\* row, with the values the instance holds
SavePhoto(ps, pk, row) == [ps EXCEPT ![pk] = row]

\* set_primary, statement by statement.  First get_object(): the row is
\* read into the handler (404 when there is none)
SetPrimaryGet(c, pk) ==
    /\ Idle(c)
    /\ IF pk \notin DOMAIN photos
       THEN /\ resp' = [op |-> "set_primary", status |-> 404]
            /\ UNCHANGED calls
       ELSE /\ calls' = Extend(calls, c, [op |-> "set_primary", pk |-> pk,
                                          photo |-> photos[pk], pc |-> "clear"])
            /\ UNCHANGED resp
    /\ UNCHANGED <<users, vehicles, locations, reviews, photos, slots, seq,
                   tasks, now, issued, rides>>

\* then the bulk update over the photos of photo.vehicle
SetPrimaryClear(c) ==
    /\ ~Idle(c)
    /\ calls[c].op = "set_primary"
    /\ calls[c].pc = "clear"
    /\ photos' = ClearPrimary(photos, calls[c].photo.vehicle)
    /\ calls' = [calls EXCEPT ![c].pc = "save"]
    /\ UNCHANGED <<users, vehicles, locations, reviews, slots, seq, tasks,
                   now, issued, rides, resp>>

\* then `photo.is_primary = True; photo.save()` and the answer
SetPrimarySave(c) ==
    /\ ~Idle(c)
    /\ calls[c].op = "set_primary"
    /\ calls[c].pc = "save"
    /\ photos' = SavePhoto(photos, calls[c].pk,
                           [calls[c].photo EXCEPT !.is_primary = TRUE])
    /\ resp' = [op |-> "set_primary", status |-> 200]
    /\ calls' = Drop(calls, c)
    /\ UNCHANGED <<users, vehicles, locations, reviews, slots, seq, tasks,
                   now, issued, rides>>

\* a vehicle with MaxPhotos photos, the first of them primary
InitGallery ==
    /\ users = [u \in UserIds |-> NewUser]
    /\ vehicles = [v \in VehicleIds |-> NewVehicle(1, v, "4_wheeler", TRUE)]
    /\ locations = [l \in VehicleIds |-> PlaceOf(l)]
    /\ reviews = {}
    /\ photos = [p \in 1..MaxPhotos |-> [vehicle |-> 1, is_primary |-> (p = 1)]]
    /\ slots = <<>>
    /\ seq = [location |-> NVehicles, vehicle |-> NVehicles,
              photo |-> MaxPhotos, slot |-> 0]
    /\ tasks = {}
    /\ now = 0
    /\ calls = <<>>
    /\ issued = <<>>
    /\ rides = {}
    /\ resp = NoResponse

NextSetPrimaryRace ==
    \/ \E c \in Callers, pk \in 1..(MaxPhotos + 1) : SetPrimaryGet(c, pk)
    \/ \E c \in Callers : SetPrimaryClear(c)
    \/ \E c \in Callers : SetPrimarySave(c)

SpecSetPrimaryRace == InitGallery /\ [][NextSetPrimaryRace]_vars

----------------------------------------------------------------------------
(* Overlapping writes of a vehicle row *)

\* toggle_availability, statement by statement.  First get_object(): the
\* whole row is read into the handler (404 when there is none)
ToggleGet(c, pk) ==
    /\ Idle(c)
    /\ IF pk \notin DOMAIN vehicles
       THEN /\ resp' = [op |-> "toggle_availability", status |-> 404]
            /\ UNCHANGED calls
       ELSE /\ calls' = Extend(calls, c, [op |-> "toggle_availability",
                                          pk |-> pk, vehicle |-> vehicles[pk]])
            /\ UNCHANGED resp
    /\ UNCHANGED <<users, vehicles, locations, reviews, photos, slots, seq,
                   tasks, now, issued, rides>>

\* then `vehicle.is_available = not vehicle.is_available; vehicle.save()`:
\* every column is written with the value the handler holds
ToggleSave(c) ==
    /\ ~Idle(c)
    /\ calls[c].op = "toggle_availability"
    /\ vehicles' = [vehicles EXCEPT ![calls[c].pk] =
                       [calls[c].vehicle EXCEPT !.is_available = ~@]]
    /\ resp' = [op |-> "toggle_availability", status |-> 200]
    /\ calls' = Drop(calls, c)
    /\ UNCHANGED <<users, locations, reviews, photos, slots, seq, tasks, now,
                   issued, rides>>

NextRatingRace ==
    \/ \E c \in Callers, p \in RacePairs, r \in {MinRating, MaxRating} :
          ReviewCreateBegin(c, p[1], p[2], r)
    \/ \E c \in Callers : ReviewCreateInsert(c)
    \/ \E c \in Callers, pk \in 1..(NVehicles + 1) : ToggleGet(c, pk)
    \/ \E c \in Callers : ToggleSave(c)

SpecRatingRace == InitCatalog /\ [][NextRatingRace]_vars

\* the vehicle's derived columns agree with the stored reviews
Reflects(vs, rs, v) ==
    LET mine == {r \in rs : r.vehicle = v}
    IN /\ vs[v].total_bookings = Cardinality(mine)
       /\ vs[v].rating = RoundedRating(AvgRating(mine))

----------------------------------------------------------------------------
(* Lookup misses *)

\* one account holding a code, and one vehicle of its own
InitDirectory ==
    /\ users = [u \in {1} |-> [NewUser EXCEPT !.otp = "012345"]]
    /\ vehicles = [v \in {1} |-> NewVehicle(1, 1, "4_wheeler", TRUE)]
    /\ locations = [l \in {1} |-> PlaceOf(1)]
    /\ reviews = {}
    /\ photos = <<>>
    /\ slots = <<>>
    /\ seq = [location |-> 1, vehicle |-> 1, photo |-> 0, slot |-> 0]
    /\ tasks = {}
    /\ now = 0
    /\ calls = <<>>
    /\ issued = [u \in {1} |-> 0]
    /\ rides = {}
    /\ resp = NoResponse

\* the account, ids that name no one (as a number and as text), text that
\* is no number, and nothing
DirectoryKeys == {JInt(1), JInt(2), JStr("2"), JStr("me"), Absent}

NextLookupMiss ==
    \/ \E k \in DirectoryKeys, x \in TimedInputs : VerifyEmail(k, x)
    \/ \E k \in DirectoryKeys, x \in TimedInputs : VerifyPhone(k, x)
    \/ \E k \in DirectoryKeys, ok \in BOOLEAN : ResendOTP(k, "111111", "111111", ok)
    \/ \E k \in DirectoryKeys, valid \in BOOLEAN : UserUpdateProfile(k, "B", valid)
    \/ \E k \in DirectoryKeys : UserDelete(k)
    \/ \E v \in {None, Some(1), Some(2)}, n \in 0..1 : VehiclePhotoUpload(v, n)

SpecLookupMiss == InitDirectory /\ [][NextLookupMiss]_vars

\* an id that int() accepts and no user row carries
MissesById(k) == Truthy(k) /\ ParseId(k) # None /\ ParseId(k)[1] \notin DOMAIN users

\* an address no user row carries
MissesByEmail(k) == Truthy(k) /\ ~(IsInt(k) /\ k.int \in DOMAIN users)

NothingWritten ==
    UNCHANGED <<users, vehicles, locations, reviews, photos, slots, seq>>

----------------------------------------------------------------------------
(* Cascading deletes *)

\* a delete that leaves the rows of the deleted vehicles behind
ChildrenKept_All(rows, kept) == rows

\* on_delete=CASCADE of a table keyed by id: the rows of vehicles that stay
ChildrenKept(rows, kept) ==
    Restrict(rows, {k \in DOMAIN rows : rows[k].vehicle \in kept})

\* what the collector does once the set of surviving vehicles is known:
\* photos, availability slots, reviews and rides of the others go with them
CascadeVehicles(kept) ==
    /\ vehicles' = Restrict(vehicles, kept)
    /\ photos' = ChildrenKept(photos, kept)
    /\ slots' = ChildrenKept(slots, kept)
    /\ reviews' = {x \in reviews : x.vehicle \in kept}
    /\ rides' = {x \in rides : x.vehicle \in kept}

\* DELETE /vehicles/<pk>/ : the generic destroy of VehicleViewSet
VehicleDestroy(v) ==
    /\ IF v \notin DOMAIN vehicles
       THEN /\ resp' = [op |-> "vehicle_destroy", status |-> 404]
            /\ UNCHANGED <<vehicles, photos, slots, reviews, rides>>
       ELSE /\ CascadeVehicles(DOMAIN vehicles \ {v})
            /\ resp' = [op |-> "vehicle_destroy", status |-> 204]
    /\ UNCHANGED <<users, locations, seq, tasks, now, calls, issued>>

\* DELETE /locations/<pk>/ : the generic destroy of LocationViewSet.
\* Vehicle.location is CASCADE; User.location is SET_NULL, an UPDATE that
\* runs no save()
LocationDestroy(l) ==
    /\ IF l \notin DOMAIN locations
       THEN /\ resp' = [op |-> "location_destroy", status |-> 404]
            /\ UNCHANGED <<users, locations, vehicles, photos, slots, reviews, rides>>
       ELSE /\ locations' = Restrict(locations, DOMAIN locations \ {l})
            /\ users' = [u \in DOMAIN users |->
                           IF users[u].location = Some(l)
                           THEN [users[u] EXCEPT !.location = None]
                           ELSE users[u]]
            /\ CascadeVehicles({v \in DOMAIN vehicles : vehicles[v].location # l})
            /\ resp' = [op |-> "location_destroy", status |-> 204]
    /\ UNCHANGED <<seq, tasks, now, calls, issued>>

\* the vehicles of InitCatalog with users living at the vehicles' locations
\* and a ride of user 2 in every vehicle
InitFleet ==
    /\ users = [u \in UserIds |->
                  [NewUser EXCEPT !.location = IF u \in VehicleIds THEN Some(u) ELSE None]]
    /\ vehicles = [v \in VehicleIds |-> NewVehicle(1, v, "4_wheeler", TRUE)]
    /\ locations = [l \in VehicleIds |-> PlaceOf(l)]
    /\ reviews = {}
    /\ photos = <<>>
    /\ slots = <<>>
    /\ seq = [location |-> NVehicles, vehicle |-> NVehicles, photo |-> 0, slot |-> 0]
    /\ tasks = {}
    /\ now = 0
    /\ calls = <<>>
    /\ issued = <<>>
    /\ rides = {[vehicle |-> v, user |-> 2] : v \in VehicleIds}
    /\ resp = NoResponse

\* the vehicles that requests add rows to
Busy == {1, 2}

NextCascade ==
    \/ \E v \in Busy : VehiclePhotoUpload(Some(v), 1)
    \/ \E v \in Busy : SlotCreate(v, WideSlot)
    \/ \E v \in Busy : ReviewCreate(v, 2, MaxRating)
    \/ \E v \in 1..NVehicles + 1 : VehicleDestroy(v)
    \/ \E l \in 1..NVehicles + 1 : LocationDestroy(l)
    \/ \E u \in {1, 2} : UserDestroy(u)

SpecCascade == InitFleet /\ [][NextCascade]_vars

\* no row points at a row that is gone
NoDanglingReference ==
    /\ \A p \in DOMAIN photos : photos[p].vehicle \in DOMAIN vehicles
    /\ \A s \in DOMAIN slots : slots[s].vehicle \in DOMAIN vehicles
    /\ \A x \in reviews : x.vehicle \in DOMAIN vehicles /\ x.user \in DOMAIN users
    /\ \A x \in rides : x.vehicle \in DOMAIN vehicles /\ x.user \in DOMAIN users
    /\ \A v \in DOMAIN vehicles :
          vehicles[v].location \in DOMAIN locations /\ vehicles[v].owner \in DOMAIN users
    /\ \A u \in DOMAIN users :
          users[u].location = None \/ users[u].location[1] \in DOMAIN locations

\* C23: referential integrity holds after any sequence of deletions --
\* deleting a Location deletes every Vehicle at it, deleting a Vehicle
\* deletes its photos, availability slots, reviews and rides, a User that
\* referenced the deleted Location is kept with that reference set to null,
\* and no photo, slot, review or ride ever refers to a vehicle that no
\* longer exists.
C23_ReferentialIntegrity ==
    /\ []NoDanglingReference
    /\ [][resp'.op = "location_destroy" => DOMAIN users' = DOMAIN users]_vars

\* location 2 was deleted after its vehicle had a photo, a slot and a review:
\* the vehicle and all of its rows are gone, the user who lived there remains
C23_Witness ==
    /\ resp.op = "location_destroy"
    /\ resp.status = 204
    /\ 2 \notin DOMAIN locations
    /\ 2 \notin DOMAIN vehicles
    /\ seq.photo > 0
    /\ seq.slot > 0
    /\ photos = <<>>
    /\ slots = <<>>
    /\ rides = {[vehicle |-> 1, user |-> 2]}
    /\ 2 \in DOMAIN users
    /\ users[2].location = None


----------------------------------------------------------------------------
(* The booking counter *)

\* C24: after every review creation that stored its review, the reviewed
\* vehicle's total_bookings equals the number of reviews stored for that
\* vehicle, and total_bookings of every other vehicle is unchanged.
\* (Checked under SpecReviewCreate.)
C24_BookingsCountAfterCreate ==
    [][(resp'.op = "review_create" /\ reviews' # reviews)
        => \A v \in DOMAIN vehicles :
              vehicles'[v].total_bookings =
                  IF \E x \in reviews' \ reviews : x.vehicle = v
                  THEN Cardinality({x \in reviews' : x.vehicle = v})
                  ELSE vehicles[v].total_bookings]_vars


----------------------------------------------------------------------------
(* The periodic sweep *)

\* C25: after a run of update_vehicle_ratings with no concurrent writes,
\* every vehicle has rating equal to the rounded mean of its reviews and
\* total_bookings equal to their count, and every vehicle with no reviews
\* (also one whose reviews were all deleted since the last recompute) has
\* rating 0.0.  (Checked under SpecReview.)
C25_SweepSettlesEveryVehicle ==
    [][UpdateVehicleRatings
        => \A v \in DOMAIN vehicles :
              LET mine == {x \in reviews : x.vehicle = v}
              IN /\ vehicles'[v].rating = RoundedRating(AvgRating(mine))
                 /\ vehicles'[v].total_bookings = Cardinality(mine)
                 /\ mine = {} => vehicles'[v].rating = 0]_vars


----------------------------------------------------------------------------
(* Adding a phone number while another request adds the same one *)

\* a column without its unique index
PhoneTaken_Never(u, phone) == FALSE

\* phone = CharField(unique=True, null=True): the index refuses a value
\* another row holds; NULLs never collide
PhoneTaken(u, phone) ==
    \E o \in DOMAIN users \ {u} : users[o].phone = Some(phone)

\* UserAddPhoneView.post for caller c up to and including the exists() query
AddPhoneCheck(c, user_id, phone) ==
    /\ Idle(c)
    /\ IF AnyMissing(user_id, phone)
       THEN /\ resp' = [op |-> "add_phone", status |-> 400, user |-> 0]
            /\ UNCHANGED calls
       ELSE IF ParseId(user_id) = None
       THEN /\ resp' = [op |-> "add_phone", status |-> 500, user |-> 0]
            /\ UNCHANGED calls
       ELSE IF \E o \in DOMAIN users :
                  users[o].phone = Some(phone.str) /\ Some(o) # ParseId(user_id)
       THEN /\ resp' = [op |-> "add_phone", status |-> 400, user |-> 0]
            /\ UNCHANGED calls
       ELSE /\ calls' = Extend(calls, c, [op |-> "add_phone", user_id |-> user_id,
                                          phone |-> phone.str])
            /\ UNCHANGED resp
    /\ UNCHANGED <<users, vehicles, locations, reviews, photos, slots, seq, tasks, now, issued,
                   rides>>

\* the rest of the view: get, assign, save() under the unique index, and
\* the SMS task.  An IntegrityError is not caught: a 500 with no row written.
AddPhoneSave(c, code, upstream_ok) ==
    /\ ~Idle(c)
    /\ calls[c].op = "add_phone"
    /\ IF ById(calls[c].user_id) = None
       THEN /\ resp' = [op |-> "add_phone", status |-> 404, user |-> 0]
            /\ UNCHANGED <<users, issued>>
       ELSE LET u == ById(calls[c].user_id)[1]
            IN IF PhoneTaken(u, calls[c].phone)
               THEN /\ resp' = [op |-> "add_phone", status |-> 500, user |-> u]
                    /\ UNCHANGED <<users, issued>>
               ELSE /\ users' = [users EXCEPT ![u] =
                                   Saved([@ EXCEPT !.phone = Some(calls[c].phone),
                                                   !.otp = code,
                                                   !.phone_verified = FALSE])]
                    /\ issued' = [issued EXCEPT ![u] = now]
                    /\ resp' = [op |-> "add_phone",
                                status |-> IF upstream_ok THEN 200 ELSE 500,
                                user |-> u]
    /\ calls' = Drop(calls, c)
    /\ UNCHANGED <<vehicles, locations, reviews, photos, slots, seq, tasks, now, rides>>

\* NUsers registered users, none with a phone yet
InitSubscribers ==
    /\ users = [u \in UserIds |-> NewUser]
    /\ vehicles = <<>>
    /\ locations = <<>>
    /\ reviews = {}
    /\ photos = <<>>
    /\ slots = <<>>
    /\ seq = [location |-> 0, vehicle |-> 0, photo |-> 0, slot |-> 0]
    /\ tasks = {}
    /\ now = 0
    /\ calls = <<>>
    /\ issued = [u \in UserIds |-> 0]
    /\ rides = {}
    /\ resp = NoResponse

\* two numbers, and no number
PhoneInputs == {JStr("900"), JStr("901"), Absent}

\* two users, and an id no user has
SubscriberKeys == {JInt(1), JInt(2), JInt(NUsers + 1)}

NextPhoneRace ==
    \/ \E c \in Callers, k \in SubscriberKeys, ph \in PhoneInputs : AddPhoneCheck(c, k, ph)
    \/ \E c \in Callers, ok \in BOOLEAN : AddPhoneSave(c, "111111", ok)
    \/ \E u \in {2} : UserDestroy(u)

SpecPhoneRace == InitSubscribers /\ [][NextPhoneRace]_vars

\* C26: no two users ever hold the same non-null phone number --
\* UserAddPhoneView rejects with 400, and without changing any row, a phone
\* already held by another user, and when two UserAddPhoneView calls with
\* the same phone for different users interleave (check, then save) at most
\* one of them ends with that phone stored.
C26_PhoneHeldByOne ==
    /\ [](\A a \in DOMAIN users, b \in DOMAIN users :
             (users[a].phone # None /\ users[a].phone = users[b].phone) => a = b)
    /\ [][\A c \in Callers, k \in SubscriberKeys, ph \in PhoneInputs \ {Absent} :
             ((\E o \in DOMAIN users : users[o].phone = Some(ph.str) /\ o # k.int)
              /\ AddPhoneCheck(c, k, ph))
                => /\ resp'.op = "add_phone"
                   /\ resp'.status = 400
                   /\ UNCHANGED <<users, calls, issued>>]_vars

\* two calls for users 1 and 2 with the same number both passed the check;
\* the first save stored it, the second ended in the index's refusal
C26_Witness ==
    /\ resp = [op |-> "add_phone", status |-> 500, user |-> 2]
    /\ users[1].phone = Some("900")
    /\ users[2].phone = None
    /\ calls = <<>>


----------------------------------------------------------------------------
(* One code column for two channels *)

\* the code UserRegisterView stored for the email, the code the phone views
\* generate, and the code of ResendOTPView's fallback, which is sent nowhere
RegistrationCode == "012345"
PhoneCode == "111111"
UnsentCode == "000000"

\* an account as UserRegisterView leaves it
InitRegistered ==
    /\ users = [u \in {1} |-> [NewUser EXCEPT !.otp = RegistrationCode]]
    /\ vehicles = <<>>
    /\ locations = <<>>
    /\ reviews = {}
    /\ photos = <<>>
    /\ slots = <<>>
    /\ seq = [location |-> 0, vehicle |-> 0, photo |-> 0, slot |-> 0]
    /\ tasks = {}
    /\ now = 0
    /\ calls = <<>>
    /\ issued = [u \in {1} |-> 0]
    /\ rides = {}
    /\ resp = NoResponse

NextChannel ==
    \/ \E k \in TimedKeys, x \in OtpInputs : VerifyEmail(k, x)
    \/ \E k \in TimedKeys, x \in OtpInputs : VerifyPhone(k, x)
    \/ \E k \in TimedKeys, ok \in BOOLEAN : ResendOTP(k, PhoneCode, UnsentCode, ok)
    \/ \E k \in TimedKeys, ph \in {Absent, JStr("9000000001")}, ok \in BOOLEAN :
          UserAddPhone(k, ph, PhoneCode, ok)

SpecChannel == InitRegistered /\ [][NextChannel]_vars

\* C27: an OTP only verifies the channel it was issued for -- the code
\* generated at registration for the email cannot set phone_verified through
\* VerifyPhoneView, and a code generated by UserAddPhoneView or ResendOTPView
\* for the phone cannot set email_verified through VerifyEmailView.
C27_CodeVerifiesItsChannel ==
    [][/\ (resp'.op = "verify_phone" /\ resp'.status = 200)
            => users[resp'.user].otp # RegistrationCode
       /\ (resp'.op = "verify_email" /\ resp'.status = 200)
            => users[resp'.user].otp # PhoneCode]_vars


----------------------------------------------------------------------------
(* The status of an availability query *)

\* C28: AvailableVehicle answers every query whose six parameters are
\* present and well-formed with 200 and every malformed one with 400,
\* whatever slots are stored -- a candidate slot whose start_time or
\* end_time is null never makes the request fail with an unhandled error.
\* (Checked under SpecAvail.)
C28_QueryAnswered200Or400 ==
    \A q \in Queries :
        \A r \in AvailableVehicleGet(q) :
            r.status = IF q \in WellFormedQueries THEN 200 ELSE 400


----------------------------------------------------------------------------
(* The verify_vehicle task next to the requests that write the vehicle row *)

\* worker c starts verify_vehicle(v): Vehicle.objects.get(id=vehicle_id).
\* A vehicle that is not there (yet) ends the task.
VerifyTaskGet(c, v) ==
    /\ Idle(c)
    /\ v \in tasks
    /\ tasks' = tasks \ {v}
    /\ IF v \notin DOMAIN vehicles
       THEN /\ resp' = [op |-> "verify_vehicle_task", status |-> 404]
            /\ UNCHANGED calls
       ELSE /\ calls' = Extend(calls, c, [op |-> "verify_vehicle_task", pk |-> v,
                                          vehicle |-> vehicles[v]])
            /\ UNCHANGED resp
    /\ UNCHANGED <<users, vehicles, locations, reviews, photos, slots, seq, now, issued, rides>>

\* the rest of the task: with the three documents the row it read is saved
\* as it was read, without them is_verified is set to False first; save()
\* writes every column
VerifyTaskSave(c) ==
    /\ ~Idle(c)
    /\ calls[c].op = "verify_vehicle_task"
    /\ LET pk == calls[c].pk
           row == calls[c].vehicle
       IN /\ pk \in DOMAIN vehicles
          /\ vehicles' = [vehicles EXCEPT ![pk] =
                            IF row.docs THEN row
                            ELSE [row EXCEPT !.is_verified = FALSE]]
    /\ resp' = [op |-> "verify_vehicle_task", status |-> 0]
    /\ calls' = Drop(calls, c)
    /\ UNCHANGED <<users, locations, reviews, photos, slots, seq, tasks, now, issued, rides>>

NextVerifyRace ==
    \/ \E req \in DocRequests : VehicleUpload(req)
    \/ \E v \in {1, 2} : VerifyTaskGet(1, v)
    \/ VerifyTaskSave(1)
    \/ \E pk \in {1, 2} : VerifyVehicle(pk)
    \/ ToggleAvailability(1)

SpecVerifyRace == InitEmpty /\ [][NextVerifyRace]_vars

\* C29: the verify_vehicle task dispatched by VehicleUploadView never turns
\* is_verified from true to false and never overwrites a concurrent change
\* -- a vehicle verified through the verify_vehicle action, or toggled,
\* stays so under every interleaving with the task.
C29_TaskLeavesVehicleAsItIs ==
    [][resp'.op = "verify_vehicle_task"
        => \A v \in DOMAIN vehicles :
              /\ vehicles[v].is_verified => vehicles'[v].is_verified
              /\ vehicles'[v].is_available = vehicles[v].is_available]_vars


----------------------------------------------------------------------------
(* Registration against the auth provider and the local store *)

\* what supabase.auth.sign_up does: a response with a user (the identity
\* now exists at the provider), a response without one, or an exception
SignUps == {"user", "nothing", "raise"}

\* POST of UserRegisterView.  `valid` is the outcome of the field checks of
\* serializer.is_valid(); the unique check on the address is made against
\* the rows.  `identity` in the answer tells whether this request left an
\* identity at the provider.
UserRegister(email, password, supa, valid, code) ==
    /\ IF ~Truthy(email) \/ ~Truthy(password)
       THEN /\ resp' = [op |-> "register", status |-> 400, user |-> 0,
                        identity |-> FALSE]
            /\ UNCHANGED <<users, issued>>
       ELSE IF supa # "user"
       THEN /\ resp' = [op |-> "register", status |-> 400, user |-> 0,
                        identity |-> FALSE]
            /\ UNCHANGED <<users, issued>>
       ELSE IF ~valid \/ Lookup(email) # None
       THEN /\ resp' = [op |-> "register", status |-> 400, user |-> 0,
                        identity |-> TRUE]
            /\ UNCHANGED <<users, issued>>
       ELSE /\ users' = Extend(users, email.int,
                               Saved([NewUser EXCEPT !.otp = code,
                                                     !.email_verified = FALSE]))
            /\ issued' = Extend(issued, email.int, now)
            /\ resp' = [op |-> "register", status |-> 201, user |-> email.int,
                        identity |-> TRUE]
    /\ OtpUnchanged

NextRegister ==
    \/ \E e \in LoginKeys, pw \in Passwords, supa \in SignUps, valid \in BOOLEAN,
          c \in Codes : UserRegister(e, pw, supa, valid, c)
    \/ \E e \in LoginKeys, supa \in {"confirmed", "raise"} :
          UserLogin(e, Absent, JStr("secret"), supa)
    \/ \E e \in LoginKeys, x \in TimedInputs : VerifyEmail(e, x)

SpecRegister == InitOneAccount /\ [][NextRegister]_vars

\* C30: UserRegisterView keeps the auth provider and the local store
\* consistent -- it returns 201 only when both the provider identity and the
\* local User row (with a 6-digit OTP and email_verified = false) exist, and
\* whenever it returns an error neither an identity nor a local row was
\* left behind.
C30_RegisterAllOrNothing ==
    [][resp'.op = "register"
        => IF resp'.status = 201
           THEN /\ resp'.identity
                /\ resp'.user \in DOMAIN users'
                /\ users'[resp'.user].otp \in Codes
                /\ ~users'[resp'.user].email_verified
           ELSE /\ ~resp'.identity
                /\ users' = users]_vars

====
